---- MODULE Spec2Model ----
(***************************************************************************)
(* A model of the bullet graph builder (crates/bullet_core/src/graph/      *)
(* builder.rs), of the NetworkBuilder front end (crates/bullet_lib/src/    *)
(* frontend.rs) and of the Adam optimiser state (crates/bullet_core/src/   *)
(* optimiser/adam.rs).                                                     *)
(*                                                                         *)
(* Four specifications share the module:                                    *)
(*   Spec      calls made directly on one GraphBuilder                     *)
(*   SpecNB    calls made through one NetworkBuilder                       *)
(*   SpecAdam  update, reset and set_params on one Adam state              *)
(*   SpecCkpt  write_to_checkpoint and load_from_checkpoint on a named     *)
(*             collection of Adam states                                   *)
(* A panic is recorded in the `last` variable of the specification; the    *)
(* object the call was made on keeps the state it had when the panic was   *)
(* raised.                                                                 *)
(***************************************************************************)
EXTENDS Integers, Sequences, FiniteSets, TLC

VARIABLES
    nodes,      \* GraphBuilder.nodes   : Vec<NodeData>, the arena
    roots,      \* GraphBuilder.roots   : HashSet<Node>
    inputs,     \* GraphBuilder.inputs  : HashSet<Node>
    weights,    \* GraphBuilder.weights : HashSet<Node>
    ids,        \* GraphBuilder.ids     : HashSet<String>
    handles,    \* the Node values the builder has returned to the caller
    phase,      \* "open" while the builder exists, "consumed" after build(self)
    last,       \* the last call on the builder and how it ended
    graph,      \* the Graph build returned, or NoGraph
    init_data,  \* NetworkBuilder.init_data : HashMap<String, InitSettings>
    poisoned,   \* NetworkBuilder.graph_builder mutex is poisoned
    adam,       \* one Adam state: momentum, velocity, params
    wtensor,    \* the weight DenseMatrix that state is updated with
    adamLast,   \* the last call on the Adam state and how it ended
    map,        \* the named collection of Adam states of one optimiser
    files,      \* the checkpoint directory: momentum.bin and velocity.bin
    ckptLast,   \* the last checkpoint call and how it ended
    prep,       \* one DefaultDataPreparer::prepare call and its chunk workers
    quant,      \* one QuantTarget::quantise call and what it returned
    conc        \* the threads sharing one NetworkBuilder and its lock

gbVars   == <<nodes, roots, inputs, weights, ids, handles, phase, last, graph>>
nbVars   == <<init_data, poisoned>>
adamVars == <<adam, wtensor, adamLast, map, files, ckptLast>>
restVars == <<prep, quant, conc>>
vars     == <<nodes, roots, inputs, weights, ids, handles, phase, last, graph,
              init_data, poisoned, adam, wtensor, adamLast, map, files, ckptLast,
              prep, quant, conc>>

(***************************************************************************)
(* Bounds of the model.                                                    *)
(***************************************************************************)
MaxNodes == 3      \* arena slots explored by Spec

MaxNBNodes == 5    \* arena slots explored by SpecNB before build is called

MaxApplied == 2    \* of which results of operations (matmul, mpe)

MaxSize == 2       \* largest element count of a DenseMatrix in SpecAdam

MaxRecords == 2    \* longest checkpoint file not written by the model itself

MaxBatch == 3      \* largest batch given to prepare in SpecPrep

MaxThreads == 2    \* largest thread count given to prepare in SpecPrep

MaxConc == 2       \* threads sharing one NetworkBuilder in SpecConc

MaxBuf == 2        \* longest buffer given to quantise in SpecQuant

(***************************************************************************)
(* Shape, Node, NodeData                                                   *)
(***************************************************************************)
Shape(r, c) == [rows |-> r, cols |-> c]

ShapeSize(s) == s.rows * s.cols

Scalar == Shape(1, 1)

\* Option<NonZeroUsize> is a usize whose value 0 is None.
NoSparse == 0

NoId == "<none>"

NoOp == [kind |-> "<none>", operands |-> <<>>, trans |-> <<>>]

NoNode == [idx |-> -1, shape |-> Shape(0, 0), sparse |-> NoSparse]

Node(idx, shape, sparse) == [idx |-> idx, shape |-> shape, sparse |-> sparse]

\* NodeData::new: `own` is a placeholder until create_node fills it in.
NodeData(id, parent_operation, size, requires_grad, sparse) ==
    [id |-> id, size |-> size, requires_grad |-> requires_grad,
     parent_operation |-> parent_operation,
     own |-> Node(-1, Shape(-1, -1), sparse)]

is_sparse(node) == node.sparse /= NoSparse

\* Node::reshape: Ok(self with the new shape) iff the element counts agree.
reshape(node, shape) ==
    IF ShapeSize(node.shape) = ShapeSize(shape)
    THEN [ok |-> TRUE, node |-> [node EXCEPT !.shape = shape]]
    ELSE [ok |-> FALSE, node |-> node]

\* GraphBuilder::get_node on builder fields given explicitly.
get_node(arena, node) == arena[node.idx + 1]

(***************************************************************************)
(* Operation: the shape rule and the operand list of each variant.  The    *)
(* file operation.rs is not among the sources; the rules are those of      *)
(* section 4.1 of the specification.                                       *)
(***************************************************************************)
Matmul(a, transa, b, transb) ==
    [kind |-> "Matmul", operands |-> <<a, b>>, trans |-> <<transa, transb>>]

PowerError(a, b) == [kind |-> "PowerError", operands |-> <<a, b>>, trans |-> <<>>]

ReduceAcrossBatch(a) ==
    [kind |-> "ReduceAcrossBatch", operands |-> <<a>>, trans |-> <<>>]

\* Operation::SparseAffine(weights, input, None)
SparseAffine(w, x) == [kind |-> "SparseAffine", operands |-> <<w, x>>, trans |-> <<>>]

\* Operation::Affine(weights, input, bias)
Affine(w, x, b) == [kind |-> "Affine", operands |-> <<w, x, b>>, trans |-> <<>>]

\* Operation::SparseAffine(weights, input, Some(bias))
SparseAffineBias(w, x, b) ==
    [kind |-> "SparseAffine", operands |-> <<w, x, b>>, trans |-> <<>>]

\* Operation::ToDense(input): operation.rs is not among the sources and the
\* specification gives no rule for it; the result is taken to keep the shape
\* of its operand.
ToDense(x) == [kind |-> "ToDense", operands |-> <<x>>, trans |-> <<>>]

Transposed(s, t) == IF t THEN Shape(s.cols, s.rows) ELSE s

\* Operation::output_shape: Ok(shape) or Err(mismatch).
output_shape(op) ==
    IF op.kind = "Matmul"
    THEN LET sa == Transposed(op.operands[1].shape, op.trans[1])
             sb == Transposed(op.operands[2].shape, op.trans[2])
         IN  IF sa.cols = sb.rows
             THEN [ok |-> TRUE, shape |-> Shape(sa.rows, sb.cols)]
             ELSE [ok |-> FALSE, shape |-> Shape(0, 0)]
    ELSE IF op.kind \in {"SparseAffine", "Affine"}
    THEN IF op.operands[1].shape.cols = op.operands[2].shape.rows
         THEN [ok |-> TRUE,
               shape |-> Shape(op.operands[1].shape.rows, op.operands[2].shape.cols)]
         ELSE [ok |-> FALSE, shape |-> Shape(0, 0)]
    ELSE IF op.kind = "ToDense"
    THEN [ok |-> TRUE, shape |-> op.operands[1].shape]
    ELSE IF op.kind = "PowerError"
    THEN IF op.operands[1].shape = op.operands[2].shape
         THEN [ok |-> TRUE, shape |-> Scalar]
         ELSE [ok |-> FALSE, shape |-> Shape(0, 0)]
    ELSE [ok |-> TRUE, shape |-> Scalar]

\* Operation::nodes: the operand handles, as they were given to the variant.
OperationNodes(op) == {op.operands[i] : i \in DOMAIN op.operands}

(***************************************************************************)
(* GraphBuilder.  A builder value is the record of its five fields; every  *)
(* method returns [ok, b, node]: ok = FALSE is a panic, b the fields as    *)
(* the method left them.                                                   *)
(***************************************************************************)
Builder ==
    [nodes |-> nodes, roots |-> roots, inputs |-> inputs,
     weights |-> weights, ids |-> ids]

Panicked(b) == [ok |-> FALSE, b |-> b, node |-> NoNode]

\* create_node without the assert on HashSet::insert: a duplicate identifier
\* is not noticed and the node is inserted.
create_node_unchecked(b, data, shape, sparse) ==
    LET node  == Node(Len(b.nodes), shape, sparse)
        data1 == [data EXCEPT !.own = node]
        roots1 == IF data.parent_operation /= NoOp
                  THEN b.roots \ OperationNodes(data.parent_operation)
                  ELSE b.roots
    IN  [ok |-> TRUE,
         b  |-> [b EXCEPT !.ids = IF data.id /= NoId THEN b.ids \cup {data.id}
                                  ELSE b.ids,
                          !.nodes = Append(b.nodes, data1),
                          !.roots = roots1 \cup {node}],
         node |-> node]

\* create_node that flips the root membership of each operand instead of
\* removing it: an operand consumed a second time becomes a root again.
create_node_toggle(b, data, shape, sparse) ==
    LET hasId  == data.id /= NoId
        node   == Node(Len(b.nodes), shape, sparse)
        data1  == [data EXCEPT !.own = node]
        ops    == IF data.parent_operation /= NoOp
                  THEN OperationNodes(data.parent_operation) ELSE {}
        roots1 == (b.roots \ ops) \cup (ops \ b.roots)
    IN  IF hasId /\ data.id \in b.ids
        THEN Panicked(b)
        ELSE [ok |-> TRUE,
              b  |-> [b EXCEPT !.ids = IF hasId THEN b.ids \cup {data.id} ELSE b.ids,
                               !.nodes = Append(b.nodes, data1),
                               !.roots = roots1 \cup {node}],
              node |-> node]

\* create_node that puts the new slot in front of the arena instead of
\* pushing it at the end.
create_node_push_front(b, data, shape, sparse) ==
    LET hasId == data.id /= NoId
        node  == Node(Len(b.nodes), shape, sparse)
    IN  IF hasId /\ data.id \in b.ids
        THEN Panicked(b)
        ELSE [ok |-> TRUE,
              b  |-> [b EXCEPT
                        !.ids = IF hasId THEN b.ids \cup {data.id} ELSE b.ids,
                        !.nodes = <<[data EXCEPT !.own = node]>> \o b.nodes,
                        !.roots = (IF data.parent_operation /= NoOp
                                   THEN b.roots \ OperationNodes(data.parent_operation)
                                   ELSE b.roots) \cup {node}],
              node |-> node]

\* create_node without `data.own = node`: the arena keeps the placeholder.
create_node_without_own(b, data, shape, sparse) ==
    LET hasId == data.id /= NoId
        node  == Node(Len(b.nodes), shape, sparse)
    IN  IF hasId /\ data.id \in b.ids
        THEN Panicked(b)
        ELSE [ok |-> TRUE,
              b  |-> [b EXCEPT
                        !.ids = IF hasId THEN b.ids \cup {data.id} ELSE b.ids,
                        !.nodes = Append(b.nodes, data),
                        !.roots = (IF data.parent_operation /= NoOp
                                   THEN b.roots \ OperationNodes(data.parent_operation)
                                   ELSE b.roots) \cup {node}],
              node |-> node]

\* GraphBuilder::create_node
create_node(b, data, shape, sparse) ==
    LET hasId    == data.id /= NoId
        inserted == hasId /\ data.id \notin b.ids       \* HashSet::insert's result
        ids1     == IF hasId THEN b.ids \cup {data.id} ELSE b.ids
        node     == Node(Len(b.nodes), shape, sparse)
        data1    == [data EXCEPT !.own = node]
        roots1   == IF data.parent_operation /= NoOp
                    THEN b.roots \ OperationNodes(data.parent_operation)
                    ELSE b.roots
    IN  IF hasId /\ ~inserted
        THEN Panicked([b EXCEPT !.ids = ids1])
        ELSE [ok |-> TRUE,
              b  |-> [b EXCEPT !.ids = ids1,
                               !.nodes = Append(b.nodes, data1),
                               !.roots = roots1 \cup {node}],
              node |-> node]

\* create_dense_input without `self.inputs.insert(node)`.
create_dense_input_unregistered(b, id, shape) ==
    create_node(b, NodeData(id, NoOp, ShapeSize(shape), FALSE, NoSparse),
                shape, NoSparse)

\* GraphBuilder::create_dense_input
create_dense_input(b, id, shape) ==
    LET data == NodeData(id, NoOp, ShapeSize(shape), FALSE, NoSparse)
        r    == create_node(b, data, shape, NoSparse)
    IN  IF ~r.ok THEN r
        ELSE [r EXCEPT !.b.inputs = r.b.inputs \cup {r.node}]

\* create_sparse_input that converts nnz only after create_node has run: with
\* nnz = 0 the identifier and the node stay behind the panic.
create_sparse_input_late_unwrap(b, id, shape, nnz) ==
    LET data == NodeData(id, NoOp, ShapeSize(shape), FALSE, NoSparse)
        r    == create_node(b, data, shape, nnz)
    IN  IF nnz = 0 THEN Panicked(r.b)
        ELSE IF ~r.ok THEN r
        ELSE [r EXCEPT !.b.inputs = r.b.inputs \cup {r.node}]

\* GraphBuilder::create_sparse_input
create_sparse_input(b, id, shape, nnz) ==
    LET data == NodeData(id, NoOp, ShapeSize(shape), FALSE, NoSparse)
    IN  IF nnz = 0
        THEN Panicked(b)              \* NonZeroUsize::try_from(0).unwrap()
        ELSE LET r == create_node(b, data, shape, nnz)
             IN  IF ~r.ok THEN r
                 ELSE [r EXCEPT !.b.inputs = r.b.inputs \cup {r.node}]

\* create_weights whose node does not require gradients.
create_weights_without_grad(b, id, shape) ==
    LET data == NodeData(id, NoOp, ShapeSize(shape), FALSE, NoSparse)
        r    == create_node(b, data, shape, NoSparse)
    IN  IF ~r.ok THEN r
        ELSE [r EXCEPT !.b.weights = r.b.weights \cup {r.node}]

\* GraphBuilder::create_weights
create_weights(b, id, shape) ==
    LET data == NodeData(id, NoOp, ShapeSize(shape), TRUE, NoSparse)
        r    == create_node(b, data, shape, NoSparse)
    IN  IF ~r.ok THEN r
        ELSE [r EXCEPT !.b.weights = r.b.weights \cup {r.node}]

\* create_result_of_operation that inserts the node although the shape rule
\* returned Err.
create_result_of_operation_lenient(b, operation, requires_grad) ==
    LET s == output_shape(operation)
    IN  create_node(b,
            NodeData(NoId, operation, ShapeSize(s.shape), requires_grad, NoSparse),
            s.shape, NoSparse)

\* GraphBuilder::create_result_of_operation
create_result_of_operation(b, operation, requires_grad) ==
    LET s == output_shape(operation)
    IN  IF s.ok
        THEN create_node(b,
                 NodeData(NoId, operation, ShapeSize(s.shape), requires_grad, NoSparse),
                 s.shape, NoSparse)
        ELSE Panicked(b)

\* root with the assert weakened to "at least one root".
root_any(b) ==
    IF b.roots = {}
    THEN Panicked(b)
    ELSE [ok |-> TRUE, b |-> b, node |-> CHOOSE r \in b.roots : TRUE]

\* GraphBuilder::root
root(b) ==
    IF Cardinality(b.roots) /= 1
    THEN Panicked(b)
    ELSE [ok |-> TRUE, b |-> b, node |-> CHOOSE r \in b.roots : TRUE]

(***************************************************************************)
(* GraphBuilder::build.  The device is the caller's: failAt = k > 0 is a   *)
(* device whose Tensor::new fails from its k-th call on, failAt = 0 one    *)
(* that never fails.                                                       *)
(***************************************************************************)
NoGraph ==
    [built |-> FALSE, nodes |-> <<>>, root |-> NoNode,
     inputs |-> <<>>, weights |-> <<>>, seeded |-> {}, seeds |-> <<>>]

\* Tensor::new(device, size, requires_grad, parent_operation, own)
Tensor(node_data) ==
    [size |-> node_data.size, requires_grad |-> node_data.requires_grad,
     parent_operation |-> node_data.parent_operation, own |-> node_data.own]

\* self.<set>.iter().map(|&node| (id of node, node)).collect::<HashMap<_, _>>()
IdMap(arena, set) ==
    [id \in {get_node(arena, n).id : n \in set} |->
        CHOOSE n \in set : get_node(arena, n).id = id]

\* Tensor::new as the k-th allocation asked of the device: Ok(tensor) or Err.
Tensor_new(failAt, k, node_data) ==
    IF failAt > 0 /\ k >= failAt
    THEN [ok |-> FALSE, tensor |-> Tensor(node_data)]
    ELSE [ok |-> TRUE, tensor |-> Tensor(node_data)]

\* The allocation loop with a failed allocation swallowed and its slot skipped.
RECURSIVE alloc_nodes_skipping(_, _, _, _)
alloc_nodes_skipping(arena, failAt, i, acc) ==
    IF i > Len(arena)
    THEN [ok |-> TRUE, nodes |-> acc, allocs |-> Len(arena),
          fault |-> IF failAt \in 1..Len(arena) THEN failAt ELSE 0]
    ELSE LET t == Tensor_new(failAt, i, arena[i])
         IN  alloc_nodes_skipping(arena, failAt, i + 1,
                                  IF t.ok THEN Append(acc, t.tensor) ELSE acc)

\* The loop of build over &self.nodes, from slot i on, acc being the tensors
\* pushed so far: `tensor?` returns the first Err.  allocs is the number of
\* Tensor::new calls made and fault the first of them that failed (0: none).
RECURSIVE alloc_nodes(_, _, _, _)
alloc_nodes(arena, failAt, i, acc) ==
    IF i > Len(arena)
    THEN [ok |-> TRUE, nodes |-> acc, allocs |-> Len(arena), fault |-> 0]
    ELSE LET t == Tensor_new(failAt, i, arena[i])
         IN  IF ~t.ok
             THEN [ok |-> FALSE, nodes |-> <<>>, allocs |-> i, fault |-> i]
             ELSE alloc_nodes(arena, failAt, i + 1, Append(acc, t.tensor))

BuildPanic == [status |-> "panic", graph |-> NoGraph, allocs |-> 0, fault |-> 0]

\* build without the "Can't output trainable weights!" assert.
build_weights_allowed(b, failAt) ==
    IF Cardinality(b.roots) /= 1 THEN BuildPanic
    ELSE LET rt == CHOOSE r \in b.roots : TRUE
         IN  IF ~get_node(b.nodes, rt).requires_grad THEN BuildPanic
             ELSE IF rt.shape /= Scalar THEN BuildPanic
             ELSE IF failAt \in 1..Len(b.nodes)
             THEN [status |-> "err", graph |-> NoGraph, allocs |-> failAt,
                   fault |-> failAt]
             ELSE [status |-> "ok",
                   graph  |-> [built   |-> TRUE,
                               nodes   |-> [i \in 1..Len(b.nodes) |-> Tensor(b.nodes[i])],
                               root    |-> rt,
                               inputs  |-> IdMap(b.nodes, b.inputs),
                               weights |-> IdMap(b.nodes, b.weights),
                               seeded  |-> {}, seeds |-> <<>>],
                   allocs |-> Len(b.nodes), fault |-> 0]

\* GraphBuilder::build
build(b, failAt) ==
    IF Cardinality(b.roots) /= 1 THEN BuildPanic
    ELSE LET rt == CHOOSE r \in b.roots : TRUE
         IN  IF ~get_node(b.nodes, rt).requires_grad THEN BuildPanic
             ELSE IF rt \in b.weights THEN BuildPanic
             ELSE IF rt.shape /= Scalar THEN BuildPanic
             ELSE IF get_node(b.nodes, rt).size /= 1 THEN BuildPanic
             ELSE LET a == alloc_nodes(b.nodes, failAt, 1, <<>>)
                  IN  IF ~a.ok
                      THEN [status |-> "err", graph |-> NoGraph,
                            allocs |-> a.allocs, fault |-> a.fault]
                      ELSE [status |-> "ok",
                            graph  |-> [built   |-> TRUE,
                                        nodes   |-> a.nodes,
                                        root    |-> rt,
                                        inputs  |-> IdMap(b.nodes, b.inputs),
                                        weights |-> IdMap(b.nodes, b.weights),
                                        seeded  |-> {}, seeds |-> <<>>],
                            allocs |-> a.allocs, fault |-> a.fault]

(***************************************************************************)
(* The calls a program makes on a GraphBuilder it owns.                    *)
(***************************************************************************)
Ids == {"w", "x"}

LeafShapes == {Scalar, Shape(1, 4)}

ViewShapes == {Scalar, Shape(1, 4), Shape(4, 1)}

NnzValues == {0, 2}

\* What the caller can pass as an operand: a returned handle, or Node::reshape
\* of one to a shape with the same element count.
Views(H) ==
    H \cup {reshape(h, s).node : h \in H, s \in ViewShapes}

OpsOver(H) ==
    {Matmul(a, FALSE, c, FALSE) : a \in H, c \in H}
    \cup {ReduceAcrossBatch(a) : a \in H}

\* The record of a call: its name, how it ended ("ok", "panic", "err"), the
\* node it returned and its arguments (the identifier, the operation) where it
\* has them.  For build, allocs counts the Tensor::new calls it made and dev
\* is the device failure it met: 0 none, k > 0 the k-th Tensor::new, -1
\* seed_random.
Last(call, result, ret, id, op, dev, allocs) ==
    [call |-> call, result |-> result, ret |-> ret, id |-> id, op |-> op,
     dev |-> dev, allocs |-> allocs]

\* Calls are explored while the arena has fewer than `bound` slots; root and
\* build are explored in every state (bound = 0 switches the guard off).
BuilderCall(name, r, bound, id, op) ==
    /\ phase = "open"
    /\ bound = 0 \/ Len(nodes) < bound
    /\ nodes' = r.b.nodes
    /\ roots' = r.b.roots
    /\ inputs' = r.b.inputs
    /\ weights' = r.b.weights
    /\ ids' = r.b.ids
    /\ handles' = IF r.ok THEN handles \cup {r.node} ELSE handles
    /\ last' = Last(name, IF r.ok THEN "ok" ELSE "panic", r.node, id, op, 0, 0)
    /\ UNCHANGED <<phase, graph>>

CreateDenseInput(id, shape) ==
    /\ BuilderCall("create_dense_input", create_dense_input(Builder, id, shape),
                   MaxNodes, id, NoOp)
    /\ UNCHANGED <<nbVars, adamVars, restVars>>

CreateSparseInput(id, shape, nnz) ==
    /\ BuilderCall("create_sparse_input",
                   create_sparse_input(Builder, id, shape, nnz), MaxNodes, id, NoOp)
    /\ UNCHANGED <<nbVars, adamVars, restVars>>

CreateWeights(id, shape) ==
    /\ BuilderCall("create_weights", create_weights(Builder, id, shape),
                   MaxNodes, id, NoOp)
    /\ UNCHANGED <<nbVars, adamVars, restVars>>

CreateResultOfOperation(op, requires_grad) ==
    /\ BuilderCall("create_result_of_operation",
                   create_result_of_operation(Builder, op, requires_grad),
                   MaxNodes, NoId, op)
    /\ UNCHANGED <<nbVars, adamVars, restVars>>

Root ==
    /\ BuilderCall("root", root(Builder), 0, NoId, NoOp)
    /\ UNCHANGED <<nbVars, adamVars, restVars>>

Build(failAt) ==
    /\ phase = "open"
    /\ LET r == build(Builder, failAt)
       IN  /\ graph' = r.graph
           /\ last' = Last("build", r.status, NoNode, NoId, NoOp, r.fault, r.allocs)
    /\ phase' = "consumed"
    /\ UNCHANGED <<nodes, roots, inputs, weights, ids, handles>>
    /\ UNCHANGED <<nbVars, adamVars, restVars>>

InitBuilder ==
    /\ nodes = <<>>
    /\ roots = {}
    /\ inputs = {}
    /\ weights = {}
    /\ ids = {}
    /\ handles = {}
    /\ phase = "open"
    /\ last = Last("new", "ok", NoNode, NoId, NoOp, 0, 0)
    /\ graph = NoGraph

InitNB ==
    /\ init_data = <<>>
    /\ poisoned = FALSE

InitRestIdle ==
    /\ prep = <<>>
    /\ quant = <<>>
    /\ conc = <<>>

InitAdamIdle ==
    /\ adam = <<>>
    /\ wtensor = <<>>
    /\ adamLast = <<>>
    /\ map = <<>>
    /\ files = <<>>
    /\ ckptLast = <<>>

Init == InitBuilder /\ InitNB /\ InitAdamIdle /\ InitRestIdle

Next ==
    \/ \E id \in Ids, shape \in LeafShapes : CreateDenseInput(id, shape)
    \/ \E id \in Ids, shape \in LeafShapes, nnz \in NnzValues :
            CreateSparseInput(id, shape, nnz)
    \/ \E id \in Ids, shape \in LeafShapes : CreateWeights(id, shape)
    \/ \E op \in OpsOver(Views(handles)), rg \in BOOLEAN :
            CreateResultOfOperation(op, rg)
    \/ Root
    \/ \E failAt \in 0..Len(nodes) : Build(failAt)

Spec == Init /\ [][Next]_vars

(***************************************************************************)
(* NetworkBuilder (frontend.rs), called from one thread.  A value is the   *)
(* record [b, init_data, poisoned]: the GraphBuilder behind the mutex, the *)
(* initialisation map, and whether the graph_builder mutex is poisoned (a  *)
(* panic while its guard is alive poisons it).  Methods return             *)
(* [ok, nb, node].                                                         *)
(***************************************************************************)
NetworkBuilder ==
    [b |-> Builder, init_data |-> init_data, poisoned |-> poisoned]

NBPanic(nb) == [ok |-> FALSE, nb |-> nb, node |-> NoNode]

\* Guarded with a mutex that a panic does not poison.
Guarded_unpoisoned(nb, r) ==
    IF r.ok
    THEN [ok |-> TRUE, nb |-> [nb EXCEPT !.b = r.b], node |-> r.node]
    ELSE NBPanic([nb EXCEPT !.b = r.b])

\* self.builder().<call>: try_lock().unwrap() panics on a poisoned mutex; a
\* panic inside the call unwinds through the guard and poisons the mutex.
Guarded(nb, r) ==
    IF r.ok
    THEN [ok |-> TRUE, nb |-> [nb EXCEPT !.b = r.b], node |-> r.node]
    ELSE NBPanic([nb EXCEPT !.b = r.b, !.poisoned = TRUE])

\* NetworkBuilder::new_dense_input
new_dense_input(nb, id, shape) ==
    IF nb.poisoned THEN NBPanic(nb)
    ELSE Guarded(nb, create_dense_input(nb.b, id, shape))

\* NetworkBuilder::new_sparse_input
new_sparse_input(nb, id, shape, nnz) ==
    IF nb.poisoned THEN NBPanic(nb)
    ELSE Guarded(nb, create_sparse_input(nb.b, id, shape, nnz))

\* new_weights without the insertion into init_data.
new_weights_unrecorded(nb, id, shape, init) ==
    IF nb.poisoned THEN NBPanic(nb)
    ELSE Guarded(nb, create_weights(nb.b, id, shape))

\* NetworkBuilder::new_weights
new_weights(nb, id, shape, init) ==
    IF nb.poisoned THEN NBPanic(nb)
    ELSE LET r == Guarded(nb, create_weights(nb.b, id, shape))
         IN  IF ~r.ok THEN r
             ELSE [r EXCEPT !.nb.init_data =
                      [k \in DOMAIN r.nb.init_data \cup {id} |->
                          IF k = id THEN init ELSE r.nb.init_data[k]]]

\* new_affine_custom that gives up after the weight when the bias fails, and
\* reports success.
new_affine_custom_half(nb, id, input_size, output_size, bias_cols) ==
    LET w == new_weights(nb, id \o "w", Shape(output_size, input_size), "Normal")
        b == new_weights(w.nb, id \o "b", Shape(output_size, bias_cols), "Zeroed")
    IN  IF ~w.ok THEN [ok |-> FALSE, nb |-> w.nb, node |-> NoNode, weights |-> NoNode]
        ELSE [ok |-> TRUE, nb |-> [b.nb EXCEPT !.poisoned = FALSE],
              node |-> b.node, weights |-> w.node]

\* NetworkBuilder::new_affine_custom: the weight "<id>w", then the bias
\* "<id>b"; a panic in the first call ends the method.  The Affine returned
\* is the pair of handles weights, node (the bias).
new_affine_custom(nb, id, input_size, output_size, bias_cols) ==
    LET w == new_weights(nb, id \o "w", Shape(output_size, input_size), "Normal")
        b == new_weights(w.nb, id \o "b", Shape(output_size, bias_cols), "Zeroed")
    IN  IF ~w.ok THEN [ok |-> FALSE, nb |-> w.nb, node |-> NoNode, weights |-> NoNode]
        ELSE IF ~b.ok
        THEN [ok |-> FALSE, nb |-> b.nb, node |-> NoNode, weights |-> NoNode]
        ELSE [ok |-> TRUE, nb |-> b.nb, node |-> b.node, weights |-> w.node]

\* NetworkBuilder::new_affine
new_affine(nb, id, input_size, output_size) ==
    new_affine_custom(nb, id, input_size, output_size, 1)

\* NetworkBuilder::apply
apply(nb, operation) ==
    IF nb.poisoned THEN NBPanic(nb)
    ELSE Guarded(nb, create_result_of_operation(nb.b, operation, TRUE))

\* NetworkBuilderNode::matmul
matmul(nb, lhs, rhs) ==
    IF is_sparse(rhs)
    THEN apply(nb, SparseAffine(lhs, rhs))
    ELSE apply(nb, Matmul(lhs, FALSE, rhs, FALSE))

\* Affine::forward
forward(nb, weights_, bias, input) ==
    IF is_sparse(input)
    THEN apply(nb, SparseAffineBias(weights_, input, bias))
    ELSE apply(nb, Affine(weights_, input, bias))

\* NetworkBuilderNode::to_dense
to_dense(nb, node) ==
    IF nb.poisoned THEN NBPanic(nb)
    ELSE Guarded(nb, create_result_of_operation(nb.b, ToDense(node), FALSE))

\* NetworkBuilderNode::mpe
mpe(nb, lhs, targets) == apply(nb, PowerError(lhs, targets))

\* The loop of build over init_data.iter(): how many times seed_random is
\* called on the weights of each identifier (Zeroed calls nothing).
RECURSIVE init_loop_from(_, _, _)
init_loop_from(map_, todo, acc) ==
    IF todo = {} THEN acc
    ELSE LET id == CHOOSE k \in todo : TRUE
         IN  init_loop_from(map_, todo \ {id},
                 IF map_[id] = "Zeroed" THEN acc ELSE [acc EXCEPT ![id] = @ + 1])

init_loop(map_) ==
    init_loop_from(map_, DOMAIN map_, [id \in DOMAIN map_ |-> 0])

NBBuildPanic(b) ==
    [status |-> "panic", b |-> b, graph |-> NoGraph, allocs |-> 0, fault |-> 0]

\* build appending the ReduceAcrossBatch node with requires_grad = false.
nb_build_reduce_without_grad(nb, dev) ==
    IF nb.poisoned THEN NBBuildPanic(nb.b)       \* into_inner().unwrap()
    ELSE LET r1 == root(nb.b)
         IN  IF ~r1.ok THEN NBBuildPanic(nb.b)
             ELSE LET r2 == create_result_of_operation(
                                nb.b, ReduceAcrossBatch(r1.node), FALSE)
                  IN  IF ~r2.ok THEN NBBuildPanic(r2.b)
                      ELSE LET g == build(r2.b, dev)
                               seeded == {id \in DOMAIN nb.init_data :
                                            nb.init_data[id] /= "Zeroed"}
                           IN  IF g.status /= "ok"
                               THEN [status |-> "panic", b |-> r2.b, graph |-> NoGraph,
                                     allocs |-> g.allocs, fault |-> g.fault]
                               ELSE IF \E id \in seeded : id \notin DOMAIN g.graph.weights
                               THEN [status |-> "panic", b |-> r2.b, graph |-> NoGraph,
                                     allocs |-> g.allocs, fault |-> 0]
                               ELSE IF dev = -1 /\ seeded /= {}
                               THEN [status |-> "panic", b |-> r2.b, graph |-> NoGraph,
                                     allocs |-> g.allocs, fault |-> -1]
                               ELSE [status |-> "ok", b |-> r2.b,
                                     graph |-> [g.graph EXCEPT
                                                !.seeded = seeded,
                                                !.seeds = init_loop(nb.init_data)],
                                     allocs |-> g.allocs, fault |-> 0]

\* NetworkBuilder::build.  dev is the execution context: 0 never fails,
\* k > 0 fails its k-th Tensor::new, -1 fails seed_random.
nb_build(nb, dev) ==
    IF nb.poisoned THEN NBBuildPanic(nb.b)       \* into_inner().unwrap()
    ELSE LET r1 == root(nb.b)
         IN  IF ~r1.ok THEN NBBuildPanic(nb.b)
             ELSE LET r2 == create_result_of_operation(
                                nb.b, ReduceAcrossBatch(r1.node), TRUE)
                  IN  IF ~r2.ok THEN NBBuildPanic(r2.b)
                      ELSE LET g == build(r2.b, dev)
                               seeded == {id \in DOMAIN nb.init_data :
                                            nb.init_data[id] /= "Zeroed"}
                           IN  IF g.status /= "ok"
                               THEN [status |-> "panic", b |-> r2.b, graph |-> NoGraph,
                                     allocs |-> g.allocs, fault |-> g.fault]
                               ELSE IF \E id \in seeded : id \notin DOMAIN g.graph.weights
                               THEN [status |-> "panic", b |-> r2.b, graph |-> NoGraph,
                                     allocs |-> g.allocs, fault |-> 0]
                               ELSE IF dev = -1 /\ seeded /= {}
                               THEN [status |-> "panic", b |-> r2.b, graph |-> NoGraph,
                                     allocs |-> g.allocs, fault |-> -1]
                               ELSE [status |-> "ok", b |-> r2.b,
                                     graph |-> [g.graph EXCEPT
                                                !.seeded = seeded,
                                                !.seeds = init_loop(nb.init_data)],
                                     allocs |-> g.allocs, fault |-> 0]

(***************************************************************************)
(* SpecNB: the calls a program makes through one NetworkBuilder.  matmul is *)
(* explored with a weight on its left, as a layer applies it, and any      *)
(* handle on its right; mpe with any two handles.                          *)
(***************************************************************************)
InitChoices == {"Zeroed", "Normal"}

\* The nodes of the arena that are results of operations.
Applied == {i \in 1..Len(nodes) : nodes[i].parent_operation /= NoOp}

NBCall(name, r, applies) ==
    /\ phase = "open"
    /\ Len(nodes) < MaxNBNodes
    /\ applies => Cardinality(Applied) < MaxApplied
    /\ nodes' = r.nb.b.nodes
    /\ roots' = r.nb.b.roots
    /\ inputs' = r.nb.b.inputs
    /\ weights' = r.nb.b.weights
    /\ ids' = r.nb.b.ids
    /\ init_data' = r.nb.init_data
    /\ poisoned' = r.nb.poisoned
    /\ handles' = IF r.ok THEN handles \cup {r.node} ELSE handles
    /\ last' = Last(name, IF r.ok THEN "ok" ELSE "panic", r.node, NoId, NoOp, 0, 0)
    /\ UNCHANGED <<phase, graph>>
    /\ UNCHANGED <<adamVars, restVars>>

NewDenseInput(id, shape) ==
    NBCall("new_dense_input", new_dense_input(NetworkBuilder, id, shape), FALSE)

NewSparseInput(id, shape, nnz) ==
    NBCall("new_sparse_input", new_sparse_input(NetworkBuilder, id, shape, nnz),
           FALSE)

NewWeights(id, shape, init) ==
    NBCall("new_weights", new_weights(NetworkBuilder, id, shape, init), FALSE)

\* new_affine: both handles of the Affine go to the caller.
NewAffine(id, input_size, output_size) ==
    LET r == new_affine(NetworkBuilder, id, input_size, output_size)
    IN  /\ phase = "open"
        /\ Len(nodes) + 1 < MaxNBNodes
        /\ nodes' = r.nb.b.nodes
        /\ roots' = r.nb.b.roots
        /\ inputs' = r.nb.b.inputs
        /\ weights' = r.nb.b.weights
        /\ ids' = r.nb.b.ids
        /\ init_data' = r.nb.init_data
        /\ poisoned' = r.nb.poisoned
        /\ handles' = IF r.ok THEN handles \cup {r.weights, r.node} ELSE handles
        /\ last' = Last("new_affine", IF r.ok THEN "ok" ELSE "panic", r.node,
                        NoId, NoOp, 0, 0)
        /\ UNCHANGED <<phase, graph>>
        /\ UNCHANGED <<adamVars, restVars>>

NodeMatmul(lhs, rhs) ==
    NBCall("matmul", matmul(NetworkBuilder, lhs, rhs), TRUE)

NodeMpe(lhs, targets) ==
    NBCall("mpe", mpe(NetworkBuilder, lhs, targets), TRUE)

NBBuild(dev) ==
    /\ phase = "open"
    /\ LET r == nb_build(NetworkBuilder, dev)
       IN  /\ nodes' = r.b.nodes
           /\ roots' = r.b.roots
           /\ inputs' = r.b.inputs
           /\ weights' = r.b.weights
           /\ ids' = r.b.ids
           /\ graph' = r.graph
           /\ last' = Last("nb_build", r.status, NoNode, NoId, NoOp, r.fault, r.allocs)
    /\ phase' = "consumed"
    /\ UNCHANGED <<handles, init_data, poisoned>>
    /\ UNCHANGED <<adamVars, restVars>>

InitSpecNB == InitBuilder /\ InitNB /\ InitAdamIdle /\ InitRestIdle

NextNB ==
    \/ NewDenseInput("x", Shape(4, 1))
    \/ NewDenseInput("t", Scalar)
    \/ \E nnz \in NnzValues : NewSparseInput("x", Shape(4, 1), nnz)
    \/ \E init \in InitChoices : NewWeights("w", Shape(1, 4), init)
    \/ \E lhs \in handles \cap weights, rhs \in handles : NodeMatmul(lhs, rhs)
    \/ \E lhs \in handles, targets \in handles : NodeMpe(lhs, targets)
    \/ \E dev \in -1..(Len(nodes) + 1) : NBBuild(dev)

SpecNB == InitSpecNB /\ [][NextNB]_vars

(***************************************************************************)
(* SpecAffine: a NetworkBuilder on which one affine layer "l" is made,     *)
(* applied to the input "x" and built; a weight "lb" made by hand is what  *)
(* makes the second half of new_affine fail.                               *)
(***************************************************************************)
AffineForward(weights_, bias, input) ==
    NBCall("forward", forward(NetworkBuilder, weights_, bias, input), TRUE)

NodeToDense(node) ==
    NBCall("to_dense", to_dense(NetworkBuilder, node), TRUE)

NextAffine ==
    \/ NewDenseInput("x", Shape(4, 1))
    \/ \E nnz \in NnzValues : NewSparseInput("x", Shape(4, 1), nnz)
    \/ \E init \in InitChoices : NewWeights("lb", Shape(1, 1), init)
    \/ NewAffine("l", 4, 1)
    \/ \E w \in handles \cap weights, b \in handles \cap weights,
          x \in handles \cap inputs : AffineForward(w, b, x)
    \/ \E x \in handles \cap inputs : NodeToDense(x)
    \/ \E dev \in -1..1 : NBBuild(dev)

SpecAffine == InitSpecNB /\ [][NextAffine]_vars

(***************************************************************************)
(* DenseMatrix and Adam (optimiser/adam.rs).  A DenseMatrix is its element *)
(* count, its batch size (0 for None) and its buffer, which holds          *)
(* size * max(batch, 1) values.  Values are drawn from Vals.               *)
(***************************************************************************)
Vals == {0, 1}

NoBatch == 0

BufLen(size, batch) == size * (IF batch = NoBatch THEN 1 ELSE batch)

DenseMatrix(size, batch, buf) == [size |-> size, batch |-> batch, buf |-> buf]

\* DenseMatrix::zeroed(device, size)
zeroed(size) == DenseMatrix(size, NoBatch, [i \in 1..size |-> 0])

\* DenseMatrix::set_zero
set_zero(m) == [m EXCEPT !.buf = [i \in DOMAIN m.buf |-> 0]]

\* AdamParams::default, in thousandths
DefaultParams == [beta1 |-> 900, beta2 |-> 999]

\* Adam::new
new(size, default_params) ==
    [momentum |-> zeroed(size), velocity |-> zeroed(size), params |-> default_params]

\* Device::adam, a stand-in for the numeric kernel of the device: it reads
\* `size` gradients and rewrites `size` elements of the three buffers.  A read
\* past the end of the gradient buffer yields `junk`.
adam_kernel(size, w, g, m, v, junk) ==
    LET gr(i) == IF i <= Len(g) THEN g[i] ELSE junk
        m1 == [i \in DOMAIN m |-> IF i <= size THEN (m[i] + gr(i)) % 2 ELSE m[i]]
        v1 == [i \in DOMAIN v |-> IF i <= size /\ gr(i) = 1 THEN 1 ELSE v[i]]
        w1 == [i \in DOMAIN w |-> IF i <= size THEN (w[i] + m1[i]) % 2 ELSE w[i]]
    IN  [w |-> w1, m |-> m1, v |-> v1]

UpdatePanic(self, weights_) ==
    [ok |-> FALSE, self |-> self, weights |-> weights_, kernel |-> FALSE,
     beta1 |-> 0, beta2 |-> 0]

\* Adam::update
update(self, weights_, grads, junk) ==
    IF weights_.batch /= NoBatch THEN UpdatePanic(self, weights_)
    ELSE IF self.momentum.batch /= NoBatch THEN UpdatePanic(self, weights_)
    ELSE IF self.velocity.batch /= NoBatch THEN UpdatePanic(self, weights_)
    ELSE IF weights_.size /= self.momentum.size THEN UpdatePanic(self, weights_)
    ELSE IF weights_.size /= self.velocity.size THEN UpdatePanic(self, weights_)
    ELSE LET k == adam_kernel(weights_.size, weights_.buf, grads.buf,
                              self.momentum.buf, self.velocity.buf, junk)
         IN  [ok |-> TRUE,
              self |-> [self EXCEPT !.momentum.buf = k.m, !.velocity.buf = k.v],
              weights |-> [weights_ EXCEPT !.buf = k.w],
              kernel |-> TRUE,
              beta1 |-> self.params.beta1, beta2 |-> self.params.beta2]

\* reset that zeroes the momentum buffer only.
reset_momentum_only(self) == [self EXCEPT !.momentum = set_zero(self.momentum)]

\* Adam::reset
reset(self) ==
    [self EXCEPT !.momentum = set_zero(self.momentum),
                 !.velocity = set_zero(self.velocity)]

\* set_params that keeps the stored hyperparameters.
set_params_ignored(self, params) == self

\* Adam::set_params
set_params(self, params) == [self EXCEPT !.params = params]

(***************************************************************************)
(* SpecAdam: one Adam state, created for some size, and the weight tensor  *)
(* the training loop updates with it.                                      *)
(***************************************************************************)
Sizes == 1..MaxSize

Batches == {NoBatch, 2}

Matrices ==
    UNION {{DenseMatrix(n, b, buf) : buf \in [1..BufLen(n, b) -> Vals]} :
            n \in Sizes, b \in Batches}

ParamChoices == {DefaultParams, [beta1 |-> 950, beta2 |-> 990]}

\* The record of a call on the Adam state: whether the kernel ran, the betas
\* the kernel was given (for set_params: the betas of the argument), the shape
\* of the gradient argument, and whether the call changed the weight,
\* momentum or velocity buffer.
AdamLast(call, result, kernel, params, grads, modified) ==
    [call |-> call, result |-> result, kernel |-> kernel,
     beta1 |-> IF kernel \/ call = "set_params" THEN params.beta1 ELSE 0,
     beta2 |-> IF kernel \/ call = "set_params" THEN params.beta2 ELSE 0,
     gsize |-> grads.size, gbatch |-> grads.batch, glen |-> Len(grads.buf),
     modified |-> modified]

NoMatrix == DenseMatrix(0, NoBatch, <<>>)

Update(grads, junk) ==
    /\ LET r == update(adam, wtensor, grads, junk)
       IN  /\ adam' = r.self
           /\ wtensor' = r.weights
           /\ adamLast' = AdamLast("update", IF r.ok THEN "ok" ELSE "panic",
                                   r.kernel,
                                   [beta1 |-> r.beta1, beta2 |-> r.beta2], grads,
                                   <<r.weights.buf, r.self.momentum.buf,
                                     r.self.velocity.buf>>
                                   /= <<wtensor.buf, adam.momentum.buf,
                                        adam.velocity.buf>>)
    /\ UNCHANGED <<map, files, ckptLast>>
    /\ UNCHANGED <<gbVars, nbVars, restVars>>

Reset ==
    /\ adam' = reset(adam)
    /\ adamLast' = AdamLast("reset", "ok", FALSE, adam.params, NoMatrix,
                            reset(adam) /= adam)
    /\ UNCHANGED <<wtensor, map, files, ckptLast>>
    /\ UNCHANGED <<gbVars, nbVars, restVars>>

SetParams(params) ==
    /\ adam' = set_params(adam, params)
    /\ adamLast' = AdamLast("set_params", "ok", FALSE, params, NoMatrix, FALSE)
    /\ UNCHANGED <<wtensor, map, files, ckptLast>>
    /\ UNCHANGED <<gbVars, nbVars, restVars>>

InitCkptIdle ==
    /\ map = <<>>
    /\ files = <<>>
    /\ ckptLast = <<>>

InitAdam ==
    /\ InitBuilder
    /\ InitNB
    /\ InitRestIdle
    /\ InitCkptIdle
    /\ \E n \in Sizes : adam = new(n, DefaultParams)
    /\ \E n \in Sizes, b \in Batches :
          wtensor = DenseMatrix(n, b, [i \in 1..BufLen(n, b) |-> 0])
    /\ adamLast = AdamLast("new", "ok", FALSE, DefaultParams, NoMatrix, FALSE)

NextAdam ==
    \/ \E grads \in Matrices, junk \in Vals : Update(grads, junk)
    \/ Reset
    \/ \E params \in ParamChoices : SetParams(params)

SpecAdam == InitAdam /\ [][NextAdam]_vars

(***************************************************************************)
(* Checkpoints.  A file is the sequence of its records [id, bytes]; the    *)
(* values of a buffer are f32 bit patterns, stored little-endian on four   *)
(* bytes each.  utils.rs (write_weights_to_file, load_weights_from_file)   *)
(* is not among the sources: the layout is that of section 6 of the        *)
(* specification, and the record order of a written file is left open.     *)
(***************************************************************************)
Names == {"a", "b"}

NameRank(n) == IF n = "a" THEN 1 ELSE 2

SizeOf(n) == IF n = "a" THEN 1 ELSE 2

\* The bit patterns of 0.0f32 and 1.0f32.
CkVals == {0, 1065353216}

to_le_bytes(v) ==
    <<v % 256, (v \div 256) % 256, (v \div 65536) % 256, (v \div 16777216) % 256>>

from_le_bytes(b) == b[1] + 256 * b[2] + 65536 * b[3] + 16777216 * b[4]

RECURSIVE Encode(_)
Encode(buf) ==
    IF buf = <<>> THEN <<>> ELSE to_le_bytes(Head(buf)) \o Encode(Tail(buf))

Decode(bytes) ==
    [i \in 1..(Len(bytes) \div 4) |-> from_le_bytes(SubSeq(bytes, 4 * i - 3, 4 * i))]

\* utils::write_weights_to_file: one record per entry of the list it is given.
write_weights_to_file(list) ==
    [i \in DOMAIN list |-> [id |-> list[i].id, bytes |-> Encode(list[i].buf)]]

\* utils::load_weights_from_file: the records of the file, in file order.
load_weights_from_file(file) ==
    [i \in DOMAIN file |-> [id |-> file[i].id, buf |-> Decode(file[i].bytes)]]

\* DenseMatrix::load_from_slice(None, buf)
load_from_slice(m, buf) == [m EXCEPT !.batch = NoBatch, !.buf = buf]

\* Vec::sort_by_key(|(id, _)| id.clone()): a stable sort by name.
RECURSIVE InsertByKey(_, _)
InsertByKey(sorted, rec) ==
    IF sorted = <<>> THEN <<rec>>
    ELSE IF NameRank(rec.id) < NameRank(Head(sorted).id)
         THEN <<rec>> \o sorted
         ELSE <<Head(sorted)>> \o InsertByKey(Tail(sorted), rec)

RECURSIVE sort_by_key(_)
sort_by_key(list) ==
    IF list = <<>> THEN <<>>
    ELSE InsertByKey(sort_by_key(SubSeq(list, 1, Len(list) - 1)), list[Len(list)])

\* Adam::write_to_checkpoint; iter_m and iter_v are the orders in which the
\* two map.iter() calls visit the collection.
write_to_checkpoint(coll, iter_m, iter_v) ==
    LET momentum == [i \in DOMAIN iter_m |->
                        [id |-> iter_m[i], buf |-> coll[iter_m[i]].momentum.buf]]
        velocity == [i \in DOMAIN iter_v |->
                        [id |-> iter_v[i], buf |-> coll[iter_v[i]].velocity.buf]]
    IN  [momentum |-> write_weights_to_file(momentum),
         velocity |-> write_weights_to_file(velocity)]

\* The for loop of load_from_checkpoint over momentum.iter().zip(velocity.iter()),
\* from position i on; loads logs every load_from_slice as [from, into].
RECURSIVE LoadPairs(_, _, _, _, _)
LoadPairs(coll, momentum, velocity, i, loads) ==
    IF i > Len(momentum) \/ i > Len(velocity)
    THEN [ok |-> TRUE, map |-> coll, loads |-> loads]
    ELSE LET id1 == momentum[i].id
             id2 == velocity[i].id
         IN  IF id1 /= id2                              \* assert_eq!(id1, id2)
             THEN [ok |-> FALSE, map |-> coll, loads |-> loads]
             ELSE IF id1 \notin DOMAIN coll             \* map.get_mut(id1).unwrap()
             THEN [ok |-> FALSE, map |-> coll, loads |-> loads]
             ELSE LoadPairs(
                     [coll EXCEPT
                        ![id1].momentum = load_from_slice(@, momentum[i].buf),
                        ![id1].velocity = load_from_slice(@, velocity[i].buf)],
                     momentum, velocity, i + 1,
                     loads \cup {[from |-> id1, into |-> id1, kind |-> "momentum"],
                                 [from |-> id2, into |-> id1, kind |-> "velocity"]})

\* load_from_checkpoint that sorts the momentum records only.
load_from_checkpoint_half_sorted(coll, dir) ==
    LoadPairs(coll, sort_by_key(load_weights_from_file(dir.momentum)),
              load_weights_from_file(dir.velocity), 1, {})

\* Adam::load_from_checkpoint
load_from_checkpoint(coll, dir) ==
    LET momentum == sort_by_key(load_weights_from_file(dir.momentum))
        velocity == sort_by_key(load_weights_from_file(dir.velocity))
    IN  LoadPairs(coll, momentum, velocity, 1, {})

(***************************************************************************)
(* SpecCkpt: one named collection of Adam states, the directory it is      *)
(* written to, and that directory with a file that comes from elsewhere.   *)
(***************************************************************************)
Perms(S) ==
    {f \in [1..Cardinality(S) -> S] : \A x \in S : \E i \in DOMAIN f : f[i] = x}

AdamStates(n) ==
    {[momentum |-> DenseMatrix(SizeOf(n), NoBatch, m),
      velocity |-> DenseMatrix(SizeOf(n), NoBatch, v),
      params   |-> DefaultParams] :
        m \in [1..SizeOf(n) -> CkVals], v \in [1..SizeOf(n) -> CkVals]}

\* The collections a trainer can hold after some training.
Collections ==
    UNION {{c \in [ns -> UNION {AdamStates(n) : n \in ns}] :
                \A n \in ns : c[n] \in AdamStates(n)} : ns \in SUBSET Names}

\* A collection as the trainer creates it: Adam::new for every name.
FreshCollection(ns) == [n \in ns |-> new(SizeOf(n), DefaultParams)]

NameSeqs == UNION {[1..k -> Names] : k \in 0..MaxRecords}

\* A file found on disk whose records carry the names ns, every value 1.0.
ForeignFile(ns) ==
    write_weights_to_file(
        [i \in DOMAIN ns |-> [id |-> ns[i], buf |-> [j \in 1..SizeOf(ns[i]) |-> 1065353216]]])

\* The written directory with one of its two files replaced by a foreign one
\* (a file of another checkpoint, or a truncated one).
SkewedDir(dir, which, ns) ==
    IF which = "momentum"
    THEN [momentum |-> ForeignFile(ns), velocity |-> dir.velocity]
    ELSE [momentum |-> dir.momentum, velocity |-> ForeignFile(ns)]

FileNames(file) == [i \in DOMAIN file |-> file[i].id]

SortedNames(file) == FileNames(sort_by_key(load_weights_from_file(file)))

NoFiles == [written |-> FALSE, momentum |-> <<>>, velocity |-> <<>>, source |-> <<>>]

\* The record of a checkpoint call: which directory it read, whether the two
\* sorted name sequences it read were the same sequence, whether the
\* collection was fresh when it was called, and the loads it performed.
CkptLast(call, result, dir, sameSeq, fresh, loads) ==
    [call |-> call, result |-> result, dir |-> dir, sameSeq |-> sameSeq,
     fresh |-> fresh, loads |-> loads]

WriteToCheckpoint(iter_m, iter_v) ==
    /\ LET dir == write_to_checkpoint(map, iter_m, iter_v)
       IN  files' = [written |-> TRUE, momentum |-> dir.momentum,
                     velocity |-> dir.velocity, source |-> map]
    /\ ckptLast' = CkptLast("write", "ok", "own", TRUE, FALSE, {})
    /\ UNCHANGED <<map, adam, wtensor, adamLast>>
    /\ UNCHANGED <<gbVars, nbVars, restVars>>

LoadFrom(which, dir) ==
    /\ LET r == load_from_checkpoint(map, dir)
       IN  /\ map' = r.map
           /\ ckptLast' = CkptLast("load", IF r.ok THEN "ok" ELSE "panic", which,
                                   SortedNames(dir.momentum) = SortedNames(dir.velocity),
                                   map = FreshCollection(DOMAIN map), r.loads)
    /\ UNCHANGED <<files, adam, wtensor, adamLast>>
    /\ UNCHANGED <<gbVars, nbVars, restVars>>

LoadOwn ==
    /\ files.written
    /\ LoadFrom("own", files)

LoadSkewed(which, ns) ==
    /\ files.written
    /\ LoadFrom("skewed", SkewedDir(files, which, ns))

NewCollection(ns) ==
    /\ map' = FreshCollection(ns)
    /\ ckptLast' = CkptLast("new", "ok", "none", TRUE, TRUE, {})
    /\ UNCHANGED <<files, adam, wtensor, adamLast>>
    /\ UNCHANGED <<gbVars, nbVars, restVars>>

InitCkpt ==
    /\ InitBuilder
    /\ InitNB
    /\ InitRestIdle
    /\ adam = <<>>
    /\ wtensor = <<>>
    /\ adamLast = <<>>
    /\ map \in Collections
    /\ files = NoFiles
    /\ ckptLast = CkptLast("new", "ok", "none", TRUE, FALSE, {})

NextCkpt ==
    \/ \E iter_m \in Perms(DOMAIN map), iter_v \in Perms(DOMAIN map) :
            WriteToCheckpoint(iter_m, iter_v)
    \/ LoadOwn
    \/ \E which \in {"momentum", "velocity"}, ns \in NameSeqs : LoadSkewed(which, ns)
    \/ \E ns \in SUBSET Names : NewCollection(ns)

SpecCkpt == InitCkpt /\ [][NextCkpt]_vars

(***************************************************************************)
(* DefaultDataPreparer::prepare (trainer/default/loader.rs).  The batch is *)
(* cut into chunks, each chunk is handed with its slices of the six        *)
(* destination buffers to a scoped thread, and the scope is left when all  *)
(* of them have finished.  A position is its number of active features     *)
(* (nfeat, the same for every position of the batch); feature j has the    *)
(* indices our = j % input_size and opp = (j + 1) % input_size.            *)
(***************************************************************************)
InputSize == 2

Min(a, b) == IF a < b THEN a ELSE b

\* usize::div_ceil
div_ceil(a, b) == (a + b - 1) \div b

Buffers == {"stm", "nstm", "dstm", "dnstm", "buckets", "targets"}

chunk_size(p) == div_ceil(p.batch_size, p.threads)

output_size(p) == IF p.wdl THEN 3 ELSE 1

\* The length each destination buffer is allocated with.
BufferLen(p, buf) ==
    IF buf \in {"stm", "nstm"}
    THEN (IF p.dense THEN p.batch_size ELSE p.max_active * p.batch_size)
    ELSE IF buf \in {"dstm", "dnstm"}
    THEN (IF p.dense THEN InputSize * p.batch_size ELSE p.batch_size)
    ELSE IF buf = "buckets" THEN p.batch_size
    ELSE output_size(p) * p.batch_size

\* The chunk length given to chunks_mut for each destination buffer.
ChunkLen(p, buf) ==
    IF buf \in {"stm", "nstm"}
    THEN (IF p.dense THEN 1 ELSE p.max_active * chunk_size(p))
    ELSE IF buf \in {"dstm", "dnstm"}
    THEN (IF p.dense THEN InputSize * chunk_size(p) ELSE 1)
    ELSE IF buf = "buckets" THEN chunk_size(p)
    ELSE output_size(p) * chunk_size(p)

\* Chunks that all start at offset 0.
chunk_range_from_zero(len, n, k) == [lo |-> 0, hi |-> Min((k + 1) * n, len)]

\* slice.chunks(n) / chunks_mut(n): the k-th chunk (k from 0) of a slice of
\* length len is the half-open range [lo, hi).
chunk_range(len, n, k) == [lo |-> k * n, hi |-> Min((k + 1) * n, len)]

\* The number of chunks chunks(n) yields for a slice of length len.
chunk_count(len, n) == div_ceil(len, n)

\* zip stops with its shortest iterator: the number of workers spawned.
NumWorkers(p) ==
    LET counts == {chunk_count(p.batch_size, chunk_size(p))}
                  \cup {chunk_count(BufferLen(p, b), ChunkLen(p, b)) : b \in Buffers}
    IN  CHOOSE c \in counts : \A d \in counts : c <= d

\* The range of buffer buf that worker k (from 0) is given.
RangeOf(p, buf, k) == chunk_range(BufferLen(p, buf), ChunkLen(p, buf), k)

\* data_chunk.len() of worker k.
DataChunkLen(p, k) ==
    LET r == chunk_range(p.batch_size, chunk_size(p), k) IN r.hi - r.lo

Write(buf, idx) == [buf |-> buf, idx |-> idx]

\* The assert on j, as an entry of the list of what the body of the loop does.
AssertJ == [buf |-> "assert", idx |-> 0]

\* What the loop body does for position i of a chunk, in order: the writes, as
\* indices into the worker's own chunks, and the assert on j.
PositionOps(p, k, i) ==
    LET feats == [j \in 1..p.nfeat |-> j - 1]
        perFeature(j) ==
            IF p.dense
            THEN <<Write("dstm", InputSize * i + (j % InputSize)),
                   Write("dnstm", InputSize * i + ((j + 1) % InputSize))>>
            ELSE <<Write("stm", p.max_active * i + j),
                   Write("nstm", p.max_active * i + j)>>
        RECURSIVE Features(_)
        Features(n) == IF n = 0 THEN <<>>
                       ELSE Features(n - 1) \o perFeature(feats[n])
        terminator ==
            IF ~p.dense /\ p.nfeat < p.max_active
            THEN <<Write("stm", p.max_active * i + p.nfeat),
                   Write("nstm", p.max_active * i + p.nfeat)>>
            ELSE <<>>
        result == (chunk_size(p) * k + i) % 3
        target == IF p.wdl THEN Write("targets", output_size(p) * i + result)
                  ELSE Write("targets", i)
    IN  Features(p.nfeat) \o terminator \o <<AssertJ>>
            \o <<Write("buckets", i), target>>

\* Whether an entry of PositionOps goes through: an index past the end of the
\* chunk panics, and so does the assert when j > max_active.
OpOk(p, k, op) ==
    IF op.buf = "assert" THEN p.nfeat <= p.max_active
    ELSE LET r == RangeOf(p, op.buf, k) IN op.idx < r.hi - r.lo

\* Worker k on position i: the offsets of the destination buffers it writes
\* before it finishes the position or panics; ex is the index in the batch of
\* the example data_chunk[i] the write was made for.
DoPosition(p, k, i) ==
    LET ops == PositionOps(p, k, i)
        bad == {n \in 1..Len(ops) : ~OpOk(p, k, ops[n])}
        cut == IF bad = {} THEN Len(ops)
               ELSE (CHOOSE n \in bad : \A m \in bad : n <= m) - 1
    IN  [ok |-> bad = {},
         writes |-> {[buf |-> ops[n].buf,
                      off |-> RangeOf(p, ops[n].buf, k).lo + ops[n].idx,
                      by  |-> k,
                      ex  |-> chunk_range(p.batch_size, chunk_size(p), k).lo + i] : n \in {m \in 1..cut : ops[m].buf /= "assert"}}]

(***************************************************************************)
(* SpecPrep: one call of prepare.  pc is where the calling thread is:      *)
(* "start", "spawning" (inside the thread scope), "returned" or "panic".   *)
(***************************************************************************)
ActiveChoices == {0, 2}

NfeatChoices == {1, 2, 3}

Workers == 0..(MaxThreads - 1)

\* prepare up to std::thread::scope: a chunk length of 0 panics in chunks.
PrepStart ==
    /\ prep.pc = "start"
    /\ prep' = IF chunk_size(prep) = 0
                  \/ \E b \in Buffers : ChunkLen(prep, b) = 0
               THEN [prep EXCEPT !.pc = "panic"]
               ELSE [prep EXCEPT !.pc = "spawning"]
    /\ UNCHANGED <<gbVars, nbVars, adamVars, quant, conc>>

\* for_each: s.spawn for the next tuple of chunks.
Spawn ==
    /\ prep.pc = "spawning"
    /\ prep.spawned < NumWorkers(prep)
    /\ prep' = [prep EXCEPT !.spawned = @ + 1,
                            !.st[prep.spawned] = "running"]
    /\ UNCHANGED <<gbVars, nbVars, adamVars, quant, conc>>

\* One iteration of the loop `for i in 0..chunk_len` in worker k, or its end.
Work(k) ==
    /\ prep.pc = "spawning"
    /\ prep.st[k] = "running"
    /\ IF prep.pos[k] >= DataChunkLen(prep, k)
       THEN prep' = [prep EXCEPT !.st[k] = "done"]
       ELSE LET r == DoPosition(prep, k, prep.pos[k])
            IN  prep' = [prep EXCEPT !.writes = @ \cup r.writes,
                                     !.pos[k] = @ + 1,
                                     !.st[k] = IF r.ok THEN "running" ELSE "panicked"]
    /\ UNCHANGED <<gbVars, nbVars, adamVars, quant, conc>>

\* The end of std::thread::scope: it joins every thread spawned in it, and
\* panics if one of them panicked; otherwise prepare returns prep.
ScopeExit ==
    /\ prep.pc = "spawning"
    /\ prep.spawned = NumWorkers(prep)
    /\ \A k \in Workers : prep.st[k] /= "running"
    /\ prep' = [prep EXCEPT !.pc = IF \E k \in Workers : prep.st[k] = "panicked"
                                   THEN "panic" ELSE "returned"]
    /\ UNCHANGED <<gbVars, nbVars, adamVars, quant, conc>>

InitPrep ==
    /\ InitBuilder
    /\ InitNB
    /\ InitAdamIdle
    /\ quant = <<>>
    /\ conc = <<>>
    /\ \E bs \in 0..MaxBatch, th \in 1..MaxThreads, ma \in ActiveChoices,
          nf \in NfeatChoices, dense \in BOOLEAN, wdl \in BOOLEAN :
          prep = [batch_size |-> bs, threads |-> th, max_active |-> ma,
                  nfeat |-> nf, dense |-> dense, wdl |-> wdl,
                  pc |-> "start", spawned |-> 0,
                  st |-> [k \in Workers |-> "unspawned"],
                  pos |-> [k \in Workers |-> 0],
                  writes |-> {}]

NextPrep ==
    \/ PrepStart
    \/ Spawn
    \/ \E k \in Workers : Work(k)
    \/ ScopeExit

SpecPrep == InitPrep /\ [][NextPrep]_vars

(***************************************************************************)
(* SpecConc: threads sharing one &NetworkBuilder.  A call is no longer one *)
(* step: it takes the graph_builder mutex with try_lock, runs the builder  *)
(* call under the guard and drops the guard; new_weights then takes the    *)
(* init_data mutex the same way for its insert.  conc.holder and           *)
(* conc.init_holder are the threads holding the two mutexes (0: free).  A  *)
(* thread whose call panics is gone ("panicked").                          *)
(***************************************************************************)
Threads == 1..MaxConc

\* Mutex::lock: the caller waits while the mutex is held.
lock(holder, isPoisoned) ==
    IF holder /= 0 THEN "Wait"
    ELSE IF isPoisoned THEN "Poisoned" ELSE "Ok"

\* Mutex::try_lock: Err(WouldBlock) while the mutex is held by any thread,
\* Err(Poisoned) when it is poisoned, Ok(guard) otherwise.
try_lock(holder, isPoisoned) ==
    IF holder /= 0 THEN "WouldBlock"
    ELSE IF isPoisoned THEN "Poisoned" ELSE "Ok"

\* The calls a thread can make: [name, id, shape, init].
ConcCall(name, id, shape, init) ==
    [name |-> name, id |-> id, shape |-> shape, init |-> init]

NoCall == ConcCall("<none>", NoId, Scalar, "Zeroed")

ConcCalls ==
    {ConcCall("new_dense_input", id, Scalar, "Zeroed") : id \in {"x", "t"}}
    \cup {ConcCall("new_weights", "w", Scalar, init) : init \in InitChoices}
    \cup {ConcCall("new_affine", "l", Scalar, "Normal")}

\* new_affine_custom is two calls of new_weights, one after the other: First
\* is the call a NetworkBuilder call starts with, Then the call that follows
\* it (NoCall: none).
First(c) ==
    IF c.name = "new_affine"
    THEN ConcCall("new_weights", c.id \o "w", c.shape, "Normal") ELSE c

Then(c) ==
    IF c.name = "new_affine"
    THEN ConcCall("new_weights", c.id \o "b", c.shape, "Zeroed") ELSE NoCall

\* The GraphBuilder call a NetworkBuilder call makes under the guard.
GuardedCall(c) ==
    IF c.name = "new_dense_input" THEN create_dense_input(Builder, c.id, c.shape)
    ELSE create_weights(Builder, c.id, c.shape)

\* self.builder() at the start of call c of thread t, or of the second half
\* of its new_affine_custom: try_lock().unwrap().  A thread that was made to
\* wait tries again.
TAcquire(t, c) ==
    /\ \/ conc.pc[t] = "idle" /\ c \in ConcCalls
       \/ conc.pc[t] = "blocked" /\ c = conc.call[t]
       \/ conc.pc[t] = "next" /\ c = conc.cont[t]
    /\ LET r == try_lock(conc.holder, poisoned)
       IN  conc' = [conc EXCEPT
                      !.call[t] = IF r \in {"Ok", "Wait"} THEN First(c) ELSE NoCall,
                      !.cont[t] = IF r \in {"Ok", "Wait"} /\ conc.pc[t] = "idle"
                                  THEN Then(c)
                                  ELSE IF r = "Wait" THEN @ ELSE NoCall,
                      !.att[t] = r,
                      !.pc[t] = IF r = "Ok" THEN "holding"
                                ELSE IF r = "Wait" THEN "blocked"
                                ELSE "panicked",
                      !.holder = IF r = "Ok" THEN t ELSE @]
    /\ UNCHANGED <<gbVars, nbVars, adamVars, prep, quant>>

\* The builder call under the guard, and the drop of the guard: at the end of
\* the statement, or in the unwinding of a panic, which poisons the mutex.
TBody(t) ==
    /\ conc.pc[t] = "holding"
    /\ LET c == conc.call[t]
           r == GuardedCall(c)
       IN  /\ nodes' = r.b.nodes
           /\ roots' = r.b.roots
           /\ inputs' = r.b.inputs
           /\ weights' = r.b.weights
           /\ ids' = r.b.ids
           /\ handles' = IF r.ok THEN handles \cup {r.node} ELSE handles
           /\ last' = Last(c.name, IF r.ok THEN "ok" ELSE "panic", r.node,
                           NoId, NoOp, 0, 0)
           /\ poisoned' = (poisoned \/ ~r.ok)
           /\ conc' = [conc EXCEPT
                         !.holder = 0,
                         !.call[t] = IF r.ok /\ c.name = "new_weights"
                                     THEN c ELSE NoCall,
                         !.cont[t] = IF r.ok THEN @ ELSE NoCall,
                         !.pc[t] = IF ~r.ok THEN "panicked"
                                   ELSE IF c.name = "new_weights" THEN "init"
                                   ELSE "idle"]
    /\ UNCHANGED <<phase, graph, init_data>>
    /\ UNCHANGED <<adamVars, prep, quant>>

\* self.init() in new_weights: try_lock().unwrap() on the init_data mutex.
TInitAcquire(t) ==
    /\ conc.pc[t] \in {"init", "init_blocked"}
    /\ LET r == try_lock(conc.init_holder, FALSE)
       IN  conc' = [conc EXCEPT
                      !.att[t] = r,
                      !.call[t] = IF r \in {"Ok", "Wait"} THEN @ ELSE NoCall,
                      !.cont[t] = IF r \in {"Ok", "Wait"} THEN @ ELSE NoCall,
                      !.pc[t] = IF r = "Ok" THEN "init_holding"
                                ELSE IF r = "Wait" THEN "init_blocked"
                                ELSE "panicked",
                      !.init_holder = IF r = "Ok" THEN t ELSE @]
    /\ UNCHANGED <<gbVars, nbVars, adamVars, prep, quant>>

\* insert(id.to_string(), init) and the drop of the guard.
TInitInsert(t) ==
    /\ conc.pc[t] = "init_holding"
    /\ LET c == conc.call[t]
       IN  init_data' = [k \in DOMAIN init_data \cup {c.id} |->
                            IF k = c.id THEN c.init ELSE init_data[k]]
    /\ conc' = [conc EXCEPT !.init_holder = 0, !.call[t] = NoCall,
                            !.pc[t] = IF conc.cont[t] = NoCall THEN "idle"
                                      ELSE "next"]
    /\ UNCHANGED <<gbVars, poisoned, adamVars, prep, quant>>

InitConc ==
    /\ InitBuilder
    /\ InitNB
    /\ InitAdamIdle
    /\ prep = <<>>
    /\ quant = <<>>
    /\ conc = [pc |-> [t \in Threads |-> "idle"],
               call |-> [t \in Threads |-> NoCall],
               cont |-> [t \in Threads |-> NoCall],
               att |-> [t \in Threads |-> "none"],
               holder |-> 0,
               init_holder |-> 0]

NextConc ==
    \/ \E t \in Threads : \E c \in ConcCalls \cup {conc.call[t]} : TAcquire(t, c)
    \/ \E t \in Threads : TBody(t)
    \/ \E t \in Threads : TInitAcquire(t)
    \/ \E t \in Threads : TInitInsert(t)

SpecConc == InitConc /\ [][NextConc]_vars

(***************************************************************************)
(* QuantTarget::quantise (trainer/default/quant.rs).  The products do not  *)
(* fit the integers of the model checker, so a magnitude is a sequence of  *)
(* bits, least significant first, without leading zeros (<<>> is zero); an *)
(* integer is [neg, mag] and a finite float is neg, m, e with the value    *)
(* m * 2^e, m having at most 24 bits for an f32 and 53 for an f64.         *)
(***************************************************************************)
RECURSIVE Bits(_)
Bits(n) == IF n = 0 THEN <<>> ELSE <<n % 2>> \o Bits(n \div 2)

RECURSIVE Norm(_)
Norm(b) ==
    IF b = <<>> THEN <<>>
    ELSE IF b[Len(b)] = 0 THEN Norm(SubSeq(b, 1, Len(b) - 1)) ELSE b

RECURSIVE AddC(_, _, _)
AddC(a, b, c) ==
    IF a = <<>> /\ b = <<>> THEN (IF c = 0 THEN <<>> ELSE <<1>>)
    ELSE LET x == IF a = <<>> THEN 0 ELSE Head(a)
             y == IF b = <<>> THEN 0 ELSE Head(b)
             s == x + y + c
         IN  <<s % 2>> \o AddC(IF a = <<>> THEN <<>> ELSE Tail(a),
                               IF b = <<>> THEN <<>> ELSE Tail(b), s \div 2)

AddB(a, b) == Norm(AddC(a, b, 0))

\* acc + a * b, one bit of a at a time (the lengths are taken so that both
\* running values are evaluated at every step)
RECURSIVE MulAcc(_, _, _)
MulAcc(a, b, acc) ==
    IF Len(acc) + Len(b) >= 0 /\ a = <<>> THEN acc
    ELSE MulAcc(Tail(a), <<0>> \o b, IF Head(a) = 1 THEN AddB(acc, b) ELSE acc)

MulB(a, b) == IF a = <<>> \/ b = <<>> THEN <<>> ELSE MulAcc(a, b, <<>>)

\* a < b
LessB(a, b) ==
    IF Len(a) /= Len(b) THEN Len(a) < Len(b)
    ELSE \E i \in 1..Len(a) :
            /\ a[i] < b[i]
            /\ \A j \in (i + 1)..Len(a) : a[j] = b[j]

\* 2^w
Pow2(w) == [i \in 1..(w + 1) |-> IF i = w + 1 THEN 1 ELSE 0]

Float(neg, m, e) == [kind |-> "num", neg |-> neg, mag |-> Bits(m), e |-> e]

NaN == [kind |-> "nan", neg |-> FALSE, mag |-> <<>>, e |-> 0]

Infinity == [kind |-> "inf", neg |-> FALSE, mag |-> <<>>, e |-> 0]

Integer(neg, mag) == [neg |-> neg, mag |-> mag]

\* Rounding of mag * 2^e to a float of p significant bits, to nearest, ties
\* to even.
RoundTo(mag, e, p) ==
    IF Len(mag) <= p THEN [mag |-> mag, e |-> e]
    ELSE LET k    == Len(mag) - p
             kept == SubSeq(mag, k + 1, Len(mag))
             rem  == Norm(SubSeq(mag, 1, k))
             half == [i \in 1..k |-> IF i = k THEN 1 ELSE 0]
             up   == LessB(half, rem) \/ (rem = half /\ kept[1] = 1)
         IN  [mag |-> IF up THEN AddB(kept, <<1>>) ELSE kept, e |-> e + k]

\* The product of two floats, rounded to p significant bits (f32: 24, f64: 53).
MulFloat(a, b, p) ==
    LET r == RoundTo(MulB(a.mag, b.mag), a.e + b.e, p)
    IN  [kind |-> "num", neg |-> (a.neg /= b.neg), mag |-> r.mag, e |-> r.e]

\* `q as f32` and f64::from(q) for an integer q.
IntToFloat(q, p) ==
    LET r == RoundTo(q.mag, 0, p)
    IN  [kind |-> "num", neg |-> q.neg, mag |-> r.mag, e |-> r.e]

\* f64::trunc, as the integer it yields.
trunc(f) ==
    Integer(f.neg,
        IF f.mag = <<>> THEN <<>>
        ELSE IF f.e >= 0 THEN [i \in 1..f.e |-> 0] \o f.mag
        ELSE IF -f.e >= Len(f.mag) THEN <<>>
        ELSE SubSeq(f.mag, 1 - f.e, Len(f.mag)))

\* Whether an integer is a value of the signed type of w bits.
FitsWidth(x, w) ==
    IF x.neg THEN ~LessB(Pow2(w - 1), x.mag) ELSE LessB(x.mag, Pow2(w - 1))

\* `as i8`, `as i16`, `as i32` from a float: the integer part, saturated.
as_int(f, w) ==
    LET x == trunc(f)
    IN  IF FitsWidth(x, w) THEN x
        ELSE IF x.neg THEN Integer(TRUE, Pow2(w - 1))
        ELSE Integer(FALSE, [i \in 1..(w - 1) |-> 1])

\* == on an integer-valued f64 and f64::from of an integer (-0.0 == 0.0).
float_eq(a, b) == a.mag = b.mag /\ (a.mag = <<>> \/ a.neg = b.neg)

\* iN::to_le_bytes: the w/8 bytes of the two's complement of x, lowest first.
int_to_le_bytes(x, w) ==
    LET padded == [i \in 1..w |-> IF i <= Len(x.mag) THEN x.mag[i] ELSE 0]
        flipped == [i \in 1..w |-> 1 - padded[i]]
        negated == AddC(flipped, <<1>>, 0)
        bits == IF x.neg /\ x.mag /= <<>>
                THEN [i \in 1..w |-> negated[i]] ELSE padded
    IN  [n \in 1..(w \div 8) |->
            bits[8 * n - 7] + 2 * bits[8 * n - 6] + 4 * bits[8 * n - 5]
            + 8 * bits[8 * n - 4] + 16 * bits[8 * n - 3] + 32 * bits[8 * n - 2]
            + 64 * bits[8 * n - 1] + 128 * bits[8 * n]]

\* QuantTarget::I8(q), I16(q), I32(q)
QuantTarget(w, q) == [w |-> w, q |-> q]

\* One iteration of the loop of quantise: Ok(bytes to write) or Err.  A NaN
\* or infinite product never equals the integer it is cast to.
quantise_one(self, float) ==
    IF float.kind /= "num" THEN [ok |-> FALSE, bytes |-> <<>>]
    ELSE IF self.w = 32
    THEN LET x == as_int(MulFloat(IntToFloat(self.q, 24), float, 24), 32)
             chk == trunc(MulFloat(float, IntToFloat(self.q, 53), 53))
         IN  IF ~float_eq(chk, x) THEN [ok |-> FALSE, bytes |-> <<>>]
             ELSE [ok |-> TRUE, bytes |-> int_to_le_bytes(x, 32)]
    ELSE LET qf == trunc(MulFloat(IntToFloat(self.q, 53), float, 53))
             x  == as_int([kind |-> "num", neg |-> qf.neg, mag |-> qf.mag, e |-> 0],
                          self.w)
         IN  IF ~float_eq(qf, x) THEN [ok |-> FALSE, bytes |-> <<>>]
             ELSE [ok |-> TRUE, bytes |-> int_to_le_bytes(x, self.w)]

\* QuantTarget::quantise for the integer targets: the first failing element
\* returns Err; otherwise the bytes of all elements, in order.
RECURSIVE quantise(_, _)
quantise(self, buf) ==
    IF buf = <<>> THEN [ok |-> TRUE, bytes |-> <<>>]
    ELSE LET r == quantise_one(self, Head(buf))
         IN  IF ~r.ok THEN r
             ELSE LET rest == quantise(self, Tail(buf))
                  IN  IF ~rest.ok THEN rest
                      ELSE [ok |-> TRUE, bytes |-> r.bytes \o rest.bytes]

(***************************************************************************)
(* SpecQuant: one call of quantise on a buffer of at most MaxBuf floats.   *)
(***************************************************************************)
QuantTargets ==
    {QuantTarget(8, Integer(FALSE, Bits(128))), QuantTarget(8, Integer(TRUE, Bits(64))),
     QuantTarget(16, Integer(FALSE, Bits(255))),
     QuantTarget(32, Integer(FALSE, Bits(64))),
     QuantTarget(32, Integer(FALSE, Bits(1909806421)))}

\* 0.5, -0.75, 0.998046875, 1.0, -2.0078125, 129.5, 8388608.0, 2^32, the f32
\* 0.5000001788139343 (8388611 * 2^-24), NaN and infinity.
FloatChoices ==
    {Float(FALSE, 1, -1), Float(TRUE, 3, -2), Float(FALSE, 511, -9),
     Float(FALSE, 1, 0), Float(TRUE, 257, -7), Float(FALSE, 259, -1),
     Float(FALSE, 1, 23), Float(FALSE, 1, 32), Float(FALSE, 8388611, -24),
     NaN, Infinity}

QuantBuffers ==
    UNION {[1..n -> FloatChoices] : n \in 0..MaxBuf}

Quantise(self, buf) ==
    /\ quant.call = "none"
    /\ quant' = [call |-> "quantise", self |-> self, buf |-> buf,
                 result |-> quantise(self, buf)]
    /\ UNCHANGED <<gbVars, nbVars, adamVars, prep, conc>>

InitQuant ==
    /\ InitBuilder
    /\ InitNB
    /\ InitAdamIdle
    /\ prep = <<>>
    /\ conc = <<>>
    /\ quant = [call |-> "none", self |-> QuantTarget(8, Integer(FALSE, <<>>)),
                buf |-> <<>>, result |-> [ok |-> TRUE, bytes |-> <<>>]]

NextQuant == \E self \in QuantTargets, buf \in QuantBuffers : Quantise(self, buf)

SpecQuant == InitQuant /\ [][NextQuant]_vars

(***************************************************************************)
(* Properties of the GraphBuilder (Spec).                                  *)
(***************************************************************************)
BuilderFields == <<nodes, roots, inputs, weights, ids>>

LeafCalls == {"create_dense_input", "create_sparse_input", "create_weights"}

\* The arena indices some inserted operation names as an operand.
ConsumedIdx ==
    {n.idx : n \in UNION {OperationNodes(nodes[i].parent_operation) :
                            i \in 1..Len(nodes)}}

Unconsumed == {nodes[i].own : i \in {j \in 1..Len(nodes) : (j - 1) \notin ConsumedIdx}}

\* C1: after every call the root set is exactly the set of nodes that no
\* inserted operation names as an operand; a successful operation leaves none
\* of its operands' nodes in the root set and has its own node there.
C1_RootsAreUnconsumed ==
    /\ roots = Unconsumed
    /\ (last.call = "create_result_of_operation" /\ last.result = "ok") =>
          /\ last.ret \in roots
          /\ \A a \in OperationNodes(last.op) : \A r \in roots : r.idx /= a.idx

\* The four conditions build asserts on the root set.
BuildConditions ==
    /\ Cardinality(roots) = 1
    /\ \A r \in roots :
          /\ get_node(nodes, r).requires_grad
          /\ r \notin weights
          /\ r.shape = Scalar
          /\ get_node(nodes, r).size = 1

\* C2 as stated: build returns a Graph iff the four root conditions hold.
C2_BuildIffRootConditions ==
    last.call = "build" => (graph.built <=> BuildConditions)

\* C2, amended: build returns a Graph iff the four root conditions hold and no
\* tensor allocation fails on the device; otherwise no Graph exists at all.
C2_BuildIffConditionsAndDevice ==
    /\ last.call = "build" =>
          /\ graph.built <=> (BuildConditions /\ last.dev = 0)
          /\ graph.built <=> last.result = "ok"
          /\ ~BuildConditions => last.result = "panic"
    /\ ~graph.built => graph = NoGraph

C2_Witness ==
    /\ last.call = "build"
    /\ graph.built
    /\ Len(graph.nodes) >= 2

\* C3: a leaf creation whose identifier is already in the id set panics, and
\* arena, root set, inputs, weights and id set are what they were before it.
C3_DuplicateIdFailsUnchanged ==
    [][(last'.call \in LeafCalls /\ last'.id \in ids)
          => (last'.result = "panic" /\ UNCHANGED BuilderFields)]_vars

C3_Witness ==
    /\ last.call = "create_weights"
    /\ last.result = "panic"
    /\ last.id \in ids
    /\ weights /= {}

\* C4: create_result_of_operation with an operation whose shape rule returns
\* Err panics, and arena, root set, inputs, weights and id set are unchanged.
C4_RejectedOperationInsertsNothing ==
    [][(last'.call = "create_result_of_operation" /\ ~output_shape(last'.op).ok)
          => (last'.result = "panic" /\ UNCHANGED BuilderFields)]_vars

C4_Witness ==
    /\ last.call = "create_result_of_operation"
    /\ last.op.kind = "Matmul"
    /\ ~output_shape(last.op).ok
    /\ last.result = "panic"
    /\ OperationNodes(last.op) \subseteq roots

RootIdx(rs) == {r.idx : r \in rs}

\* C5: the only node a step adds to the root set is the node that step
\* inserts; an index that is in the arena and not in the root set stays out of
\* it; the arena only grows at its end and keeps every slot as it was.
C5_RootMembershipMonotone ==
    [][/\ Len(nodes') >= Len(nodes)
       /\ \A i \in 1..Len(nodes) : nodes'[i] = nodes[i]
       /\ \A i \in 0..(Len(nodes) - 1) :
             i \notin RootIdx(roots) => i \notin RootIdx(roots')
       /\ \A r \in roots' \ roots :
             /\ Len(nodes') = Len(nodes) + 1
             /\ r = nodes'[Len(nodes')].own
             /\ r.idx = Len(nodes)
       /\ Len(nodes') > Len(nodes) => nodes'[Len(nodes')].own \in roots']_vars

\* A node consumed by an earlier operation, and an insertion after that one.
C5_Witness ==
    \E i \in 1..Len(nodes) : \E j \in (i + 1)..Len(nodes) :
        /\ (i - 1) \notin RootIdx(roots)
        /\ nodes[j].parent_operation /= NoOp
        /\ nodes[i].own \in OperationNodes(nodes[j].parent_operation)
        /\ j < Len(nodes)

\* C10: root returns a node exactly when the root set has one element, that
\* element is what it returns, it panics otherwise, and it changes nothing.
C10_RootReturnsTheSingleRoot ==
    [][last'.call = "root" =>
          /\ UNCHANGED BuilderFields
          /\ last'.result = "ok" <=> Cardinality(roots) = 1
          /\ last'.result = "ok" => roots = {last'.ret}
          /\ last'.result /= "ok" => (last'.result = "panic" /\ last'.ret = NoNode)]_vars

C10_Witness ==
    /\ last.call = "root"
    /\ last.result = "ok"
    /\ roots = {last.ret}
    /\ Len(nodes) >= 2

(***************************************************************************)
(* Properties of Adam::update (SpecAdam).                                  *)
(***************************************************************************)
\* The preconditions the claim names, over the four tensors of an update.
UpdatePreconditions ==
    /\ wtensor.batch = NoBatch
    /\ adamLast.gbatch = NoBatch
    /\ adam.momentum.batch = NoBatch
    /\ adam.velocity.batch = NoBatch
    /\ wtensor.size = adamLast.gsize
    /\ wtensor.size = adam.momentum.size
    /\ wtensor.size = adam.velocity.size

\* C6: whenever weight, gradient, momentum or velocity has a batch dimension,
\* or the four do not agree on the element count, update panics and leaves
\* the three buffers as they were; the kernel runs only when all of it holds.
C6_UpdateChecksAllFourTensors ==
    adamLast.call = "update" =>
        /\ ~UpdatePreconditions =>
              /\ adamLast.result = "panic"
              /\ ~adamLast.modified
        /\ adamLast.kernel => UpdatePreconditions

(***************************************************************************)
(* Properties of the checkpoint pair (SpecCkpt).                           *)
(***************************************************************************)
\* C7: load_from_checkpoint panics whenever the two sorted name sequences it
\* read differ (at a position or in length), and every buffer it loads goes
\* into the state of the weight whose name the record carries.
C7_NameMismatchIsFatal ==
    ckptLast.call = "load" =>
        /\ ~ckptLast.sameSeq => ckptLast.result = "panic"
        /\ \A l \in ckptLast.loads : l.from = l.into

ScenarioBuilt ==
    /\ last.call = "nb_build"
    /\ ~poisoned
    /\ \E iw, ix, it, im, ip \in 1..Len(nodes) :
          /\ nodes[iw].id = "w" /\ nodes[iw].own \in weights
          /\ nodes[iw].own.shape = Shape(1, 4)
          /\ nodes[ix].id = "x" /\ nodes[ix].own \in inputs
          /\ nodes[ix].own.shape = Shape(4, 1) /\ ~is_sparse(nodes[ix].own)
          /\ nodes[it].id = "t" /\ nodes[it].own \in inputs
          /\ nodes[it].own.shape = Scalar
          /\ nodes[im].parent_operation =
                 Matmul(nodes[iw].own, FALSE, nodes[ix].own, FALSE)
          /\ nodes[ip].parent_operation = PowerError(nodes[im].own, nodes[it].own)
          /\ {i \in 1..Len(nodes) :
                 nodes[i].parent_operation.kind /= "ReduceAcrossBatch"}
               = {iw, ix, it, im, ip}

\* The root tensor of the built graph.
RootTensor == graph.nodes[graph.root.idx + 1]

C11_AllocationErrorIsReturned ==
    (last.call = "build" /\ last.dev > 0) =>
        /\ BuildConditions
        /\ last.result = "err"
        /\ last.allocs = last.dev
        /\ ~graph.built
        /\ graph = NoGraph

\* The device failed on the second of three slots: the third was never asked for.
C11_Witness ==
    /\ last.call = "build"
    /\ last.result = "err"
    /\ last.dev = 2
    /\ last.allocs = 2
    /\ Len(nodes) = 3

(***************************************************************************)
(* C12, C13.  Adam::reset and Adam::set_params (SpecAdam).                 *)
(***************************************************************************)
AllZero(buf) == \A i \in DOMAIN buf : buf[i] = 0

\* C12: a reset leaves every element of the momentum and velocity buffers zero
\* and changes neither the weight tensor nor the stored beta1 and beta2 (nor
\* the size of a buffer).
C12_ResetZeroesBuffersOnly ==
    [][adamLast'.call = "reset" =>
          /\ AllZero(adam'.momentum.buf)
          /\ AllZero(adam'.velocity.buf)
          /\ Len(adam'.momentum.buf) = Len(adam.momentum.buf)
          /\ Len(adam'.velocity.buf) = Len(adam.velocity.buf)
          /\ wtensor' = wtensor
          /\ adam'.params = adam.params]_vars

\* A reset of non-zero buffers, with non-zero weights and non-default betas.
C12_Witness ==
    /\ adamLast.call = "reset"
    /\ adamLast.modified
    /\ ~AllZero(wtensor.buf)
    /\ adam.params /= DefaultParams
    /\ AllZero(adam.momentum.buf)
    /\ AllZero(adam.velocity.buf)

\* C13: set_params stores the betas it is given and leaves momentum, velocity
\* and the weights alone; no other call changes the stored betas; and an
\* update that reaches the kernel gives it the stored betas.  So every update
\* uses the betas of the latest set_params before it (those of new, if none).
C13_SetParamsSwapsBetasOnly ==
    [][/\ adamLast'.call = "set_params" =>
             /\ adam'.params = [beta1 |-> adamLast'.beta1, beta2 |-> adamLast'.beta2]
             /\ adam'.momentum = adam.momentum
             /\ adam'.velocity = adam.velocity
             /\ wtensor' = wtensor
       /\ adam'.params /= adam.params => adamLast'.call = "set_params"
       /\ (adamLast'.call = "update" /\ adamLast'.kernel) =>
             /\ adamLast'.beta1 = adam.params.beta1
             /\ adamLast'.beta2 = adam.params.beta2]_vars

\* An update that ran the kernel with betas other than the default ones, on
\* buffers that an earlier update had filled.
C13_Witness ==
    /\ adamLast.call = "update"
    /\ adamLast.kernel
    /\ adamLast.beta1 /= DefaultParams.beta1
    /\ adam.params /= DefaultParams
    /\ ~AllZero(adam.momentum.buf)

(***************************************************************************)
(* C14.  The chunk workers of DefaultDataPreparer::prepare (SpecPrep).     *)
(***************************************************************************)
SpawnedWorkers == {k \in Workers : prep.st[k] /= "unspawned"}

\* C14: the workers spawned so far hold pairwise disjoint ranges of every
\* destination buffer, each lying inside the buffer; no offset of a buffer has
\* been written by two workers, and every write lies in its writer's range;
\* and prepare has returned only if every chunk has had its worker and every
\* worker has finished.
C14_WorkersWriteDisjointChunks ==
    /\ \A b \in Buffers : \A k \in SpawnedWorkers :
          /\ RangeOf(prep, b, k).lo < RangeOf(prep, b, k).hi
          /\ RangeOf(prep, b, k).hi <= BufferLen(prep, b)
          /\ \A l \in SpawnedWorkers \ {k} :
                \/ RangeOf(prep, b, k).hi <= RangeOf(prep, b, l).lo
                \/ RangeOf(prep, b, l).hi <= RangeOf(prep, b, k).lo
    /\ \A w \in prep.writes :
          /\ RangeOf(prep, w.buf, w.by).lo <= w.off
          /\ w.off < RangeOf(prep, w.buf, w.by).hi
          /\ \A v \in prep.writes : (v.buf = w.buf /\ v.off = w.off) => v.by = w.by
    /\ prep.pc = "returned" =>
          /\ prep.spawned = NumWorkers(prep)
          /\ \A k \in Workers : prep.st[k] \in {"unspawned", "done"}
          /\ \A k \in Workers : prep.st[k] = "unspawned" <=> k >= prep.spawned

\* prepare has returned a batch of three positions that two workers filled,
\* the second one with a shorter chunk than the first.
C14_Witness ==
    /\ prep.pc = "returned"
    /\ prep.batch_size = 3
    /\ prep.spawned = 2
    /\ ~prep.dense
    /\ \E w \in prep.writes : w.by = 0 /\ w.buf = "stm"
    /\ \E w \in prep.writes : w.by = 1 /\ w.buf = "stm"
    /\ Cardinality({w \in prep.writes : w.buf = "buckets"}) = 3

(***************************************************************************)
(* C15.  The mutexes of a shared NetworkBuilder (SpecConc).                *)
(***************************************************************************)
\* C15: no thread ever waits for the graph_builder or the init_data mutex, and
\* a thread that asked for a mutex another thread held has panicked at once,
\* without getting the mutex.
C15_LockedBuilderFailsFast ==
    \A t \in Threads :
        /\ conc.pc[t] \notin {"blocked", "init_blocked"}
        /\ conc.att[t] \notin {"Ok", "none"} =>
              /\ conc.pc[t] = "panicked"
              /\ conc.holder /= t
              /\ conc.init_holder /= t

\* A thread has panicked on a builder mutex that the other thread, still
\* running its call, holds.
C15_Witness ==
    \E t \in Threads, u \in Threads :
        /\ t /= u
        /\ conc.att[t] = "WouldBlock"
        /\ conc.pc[t] = "panicked"
        /\ conc.holder = u
        /\ conc.pc[u] = "holding"
        /\ ~poisoned

(***************************************************************************)
(* C16.  The Graph that build returns (Spec).                              *)
(***************************************************************************)
\* The entries an id map must have for a set of registered nodes.
EntriesOf(set) == {<<get_node(nodes, n).id, n>> : n \in set}

\* C16: a built Graph has one tensor per arena slot, in arena order, the
\* tensor at position i made from the NodeData whose own handle has idx i, so
\* that every handle the builder returned indexes the tensor carrying that
\* handle; its inputs and weights maps have exactly one entry per registered
\* input and weight, from the node's id to the node's handle.
C16_GraphMirrorsArena ==
    graph.built =>
        /\ Len(graph.nodes) = Len(nodes)
        /\ \A i \in 1..Len(nodes) :
              /\ graph.nodes[i].own.idx = i - 1
              /\ graph.nodes[i].own = nodes[i].own
              /\ graph.nodes[i].size = nodes[i].size
              /\ graph.nodes[i].requires_grad = nodes[i].requires_grad
              /\ graph.nodes[i].parent_operation = nodes[i].parent_operation
        /\ \A h \in handles :
              /\ h.idx + 1 \in 1..Len(graph.nodes)
              /\ graph.nodes[h.idx + 1].own = h
        /\ {<<id, graph.inputs[id]>> : id \in DOMAIN graph.inputs} = EntriesOf(inputs)
        /\ Cardinality(DOMAIN graph.inputs) = Cardinality(inputs)
        /\ {<<id, graph.weights[id]>> : id \in DOMAIN graph.weights} = EntriesOf(weights)
        /\ Cardinality(DOMAIN graph.weights) = Cardinality(weights)

\* A Graph of an input, a weight and their product.
C16_Witness ==
    /\ graph.built
    /\ Len(graph.nodes) = 3
    /\ Cardinality(DOMAIN graph.inputs) = 1
    /\ Cardinality(DOMAIN graph.weights) = 1
    /\ graph.root.idx = 2

(***************************************************************************)
(* Properties of quantise (SpecQuant).                                     *)
(***************************************************************************)
\* The exact product q * v, truncated toward zero.
ExactScaled(self, float) ==
    trunc([kind |-> "num", neg |-> (self.q.neg /= float.neg),
           mag |-> MulB(self.q.mag, float.mag), e |-> float.e])

ExactFits(self, float) ==
    float.kind = "num" /\ FitsWidth(ExactScaled(self, float), self.w)

RECURSIVE ExactBytes(_, _)
ExactBytes(self, buf) ==
    IF buf = <<>> THEN <<>>
    ELSE int_to_le_bytes(ExactScaled(self, Head(buf)), self.w)
         \o ExactBytes(self, Tail(buf))

\* C17: quantise to I8, I16 or I32 with factor q fails for every buffer that
\* holds a value whose scaled value, truncated toward zero, does not fit the
\* target width; when it succeeds the output is, element by element and in
\* order, the little-endian bytes of the scaled value truncated toward zero,
\* one value of the target width per element.
C17_QuantiseExactOrFails ==
    quant.call = "quantise" =>
        /\ (\E i \in 1..Len(quant.buf) : ~ExactFits(quant.self, quant.buf[i]))
               => ~quant.result.ok
        /\ quant.result.ok =>
               /\ Len(quant.result.bytes) = Len(quant.buf) * (quant.self.w \div 8)
               /\ quant.result.bytes = ExactBytes(quant.self, quant.buf)

\* The parts of C17 the code does meet: a value that does not fit always
\* fails, the output has one value per element, and the I8 and I16 outputs
\* are exact.
QuantiseFailsOnOverflow ==
    quant.call = "quantise" =>
        /\ (\E i \in 1..Len(quant.buf) : ~ExactFits(quant.self, quant.buf[i]))
               => ~quant.result.ok
        /\ quant.result.ok =>
               /\ Len(quant.result.bytes) = Len(quant.buf) * (quant.self.w \div 8)
               /\ quant.self.w /= 32 =>
                      quant.result.bytes = ExactBytes(quant.self, quant.buf)

(***************************************************************************)
(* Leaf nodes of the GraphBuilder (Spec).                                  *)
(***************************************************************************)
\* C18: create_sparse_input with nnz = 0 panics and leaves the builder as it
\* was: no node is added, roots, inputs, weights and the used identifiers are
\* unchanged, and a fresh identifier can still be used by a later creation;
\* with nnz > 0 and a fresh identifier it appends a leaf node that does not
\* require gradients, returns its handle with sparsity nnz and registers the
\* handle under inputs.
C18_SparseInputNeedsPositiveNnz ==
    [][\A id \in Ids, shape \in LeafShapes :
        /\ CreateSparseInput(id, shape, 0) =>
               /\ last'.result = "panic"
               /\ UNCHANGED <<nodes, roots, inputs, weights, ids, handles>>
               /\ id \notin ids =>
                      /\ create_sparse_input(Builder', id, shape, 2).ok
                      /\ create_dense_input(Builder', id, shape).ok
                      /\ create_weights(Builder', id, shape).ok
        /\ \A nnz \in NnzValues \ {0} :
               (CreateSparseInput(id, shape, nnz) /\ id \notin ids) =>
                   LET n == Node(Len(nodes), shape, nnz)
                   IN  /\ last'.result = "ok"
                       /\ last'.ret = n
                       /\ nodes' = Append(nodes,
                              [id |-> id, size |-> ShapeSize(shape),
                               requires_grad |-> FALSE,
                               parent_operation |-> NoOp, own |-> n])
                       /\ inputs' = inputs \cup {n}
                       /\ roots' = roots \cup {n}
                       /\ ids' = ids \cup {id}
                       /\ weights' = weights]_vars

\* A panic of create_sparse_input on an identifier that is still unused (so
\* nnz was 0), in a builder that already holds a sparse input.
C18_Witness ==
    /\ last.call = "create_sparse_input"
    /\ last.result = "panic"
    /\ last.id \notin ids
    /\ \E n \in inputs : n.sparse = 2 /\ ~nodes[n.idx + 1].requires_grad

\* C19: the arena slots without a producing operation are exactly the nodes
\* registered in inputs or weights, no node is in both sets, and a node with
\* a producing operation is in neither set and has no identifier.
C19_LeavesAreInputsOrWeights ==
    /\ \A i \in 1..Len(nodes) :
           /\ nodes[i].parent_operation = NoOp
                  <=> nodes[i].own \in inputs \cup weights
           /\ nodes[i].parent_operation /= NoOp =>
                  /\ nodes[i].id = NoId
                  /\ \A n \in inputs \cup weights : n.idx /= i - 1
    /\ \A n \in inputs \cup weights :
           /\ n.idx + 1 \in 1..Len(nodes)
           /\ nodes[n.idx + 1].own = n
    /\ inputs \cap weights = {}
    /\ \A n \in inputs, m \in weights : n.idx /= m.idx

\* An input, a weight and a node produced from them.
C19_Witness ==
    /\ Len(nodes) = 3
    /\ Cardinality(inputs) = 1
    /\ Cardinality(weights) = 1
    /\ nodes[3].parent_operation /= NoOp
    /\ nodes[3].parent_operation.kind = "Matmul"

\* C20: every node registered as a weight requires gradients and every node
\* registered as an input, dense or sparse, does not.
C20_WeightsRequireGradInputsDoNot ==
    /\ \A n \in weights : nodes[n.idx + 1].requires_grad
    /\ \A n \in inputs : ~nodes[n.idx + 1].requires_grad

\* A weight and a sparse input in one builder.
C20_Witness ==
    /\ \E n \in weights : nodes[n.idx + 1].requires_grad
    /\ \E n \in inputs : is_sparse(n) /\ ~nodes[n.idx + 1].requires_grad

\* C21: the used identifiers are exactly the identifiers of the arena's leaf
\* nodes, no two arena nodes carry the same identifier, and there are as many
\* used identifiers as registered inputs and weights together.
C21_IdsAreTheLeafIdentifiers ==
    /\ ids = {nodes[i].id : i \in {j \in 1..Len(nodes) :
                                       nodes[j].parent_operation = NoOp}}
    /\ NoId \notin ids
    /\ \A i, j \in 1..Len(nodes) :
           (i /= j /\ nodes[i].id /= NoId) => nodes[i].id /= nodes[j].id
    /\ Cardinality(ids) = Cardinality(inputs) + Cardinality(weights)

\* Both identifiers are in use, by an input and a weight, and a creation that
\* named one of them again has panicked.
C21_Witness ==
    /\ last.result = "panic"
    /\ last.id \in ids
    /\ Cardinality(ids) = 2
    /\ Cardinality(inputs) = 1
    /\ Cardinality(weights) = 1

(***************************************************************************)
(* The fan-out of prepare (SpecPrep).                                      *)
(***************************************************************************)
\* The writes made for example e into buffer buf.
WritesFor(buf, e) == {w \in prep.writes : w.buf = buf /\ w.ex = e}

\* C22: for a batch of B >= 1 examples and T >= 1 threads, prepare never
\* spawns more than ceil(B / ceil(B / T)) workers, which is at most T, and
\* once it is through spawning it has spawned exactly that many, worker k
\* over the examples k * ceil(B / T) up to the next multiple or B; no example
\* is ever handled by two workers; and when prepare returns, every example
\* 0..B-1 was handled by the one worker whose chunk holds it, bucket entry i
\* was written for example i, and the target entries of example i were
\* written once, for example i and inside its own slots.
C22_EveryExampleHasOneWorker ==
    (prep.batch_size >= 1 /\ prep.pc /= "start") =>
        LET B  == prep.batch_size
            cs == div_ceil(B, prep.threads)
            W  == div_ceil(B, cs)
            os == output_size(prep)
        IN  /\ W <= prep.threads
            /\ prep.spawned <= W
            /\ prep.pc = "returned" => prep.spawned = W
            /\ \A w \in prep.writes :
                   /\ w.by < prep.spawned
                   /\ w.ex \in 0..(B - 1)
                   /\ w.ex \div cs = w.by
            /\ \A k \in Workers : prep.st[k] /= "unspawned" =>
                   prep.pos[k] <= Min((k + 1) * cs, B) - k * cs
            /\ prep.pc = "returned" =>
                   \A e \in 0..(B - 1) :
                       /\ prep.pos[e \div cs] = Min((e \div cs + 1) * cs, B)
                                                  - (e \div cs) * cs
                       /\ \E w \in WritesFor("buckets", e) :
                              WritesFor("buckets", e) = {w} /\ w.off = e
                       /\ \A w \in prep.writes :
                              (w.buf = "buckets" /\ w.off = e) => w.ex = e
                       /\ \E w \in WritesFor("targets", e) :
                              /\ WritesFor("targets", e) = {w}
                              /\ w.off \in (os * e)..(os * e + os - 1)
                       /\ \A w \in prep.writes :
                              (w.buf = "targets"
                               /\ w.off \in (os * e)..(os * e + os - 1)) => w.ex = e

\* prepare has returned a batch of three examples for two threads: two
\* workers, the first over examples 0 and 1, the second over example 2.
C22_Witness ==
    /\ prep.pc = "returned"
    /\ prep.batch_size = 3
    /\ prep.threads = 2
    /\ prep.spawned = 2
    /\ prep.wdl
    /\ \E w \in prep.writes : w.buf = "targets" /\ w.ex = 1 /\ w.by = 0
    /\ \E w \in prep.writes : w.buf = "buckets" /\ w.ex = 2 /\ w.by = 1 /\ w.off = 2

(***************************************************************************)
(* Layers made through the NetworkBuilder (SpecAffine).                    *)
(***************************************************************************)
\* C23: a build of the NetworkBuilder that succeeds has appended one node,
\* ReduceAcrossBatch over the single root the builder had, and built the
\* graph with that node as its root; the identifiers of the initialisation
\* map are exactly the identifiers of the weights of the graph, so every
\* lookup finds its weight; and seed_random has run once on every weight
\* recorded with a random initialisation and never on one recorded as zeroed.
C23_BuildReducesRootAndInitialisesOnce ==
    [][(last'.call = "nb_build" /\ last'.result = "ok") =>
          /\ \E r \in roots :
                 /\ roots = {r}
                 /\ Len(nodes') = Len(nodes) + 1
                 /\ SubSeq(nodes', 1, Len(nodes)) = nodes
                 /\ nodes'[Len(nodes')].parent_operation = ReduceAcrossBatch(r)
                 /\ nodes'[Len(nodes')].own.idx = Len(nodes)
                 /\ graph'.root = nodes'[Len(nodes')].own
          /\ graph'.built
          /\ Len(graph'.nodes) = Len(nodes')
          /\ DOMAIN init_data = DOMAIN graph'.weights
          /\ DOMAIN graph'.weights = {nodes[n.idx + 1].id : n \in weights}
          /\ DOMAIN graph'.seeds = DOMAIN init_data
          /\ \A id \in DOMAIN init_data :
                 graph'.seeds[id] = IF init_data[id] = "Zeroed" THEN 0 ELSE 1]_vars

\* The layer "l" applied to "x" and built: its weight seeded once, its bias
\* left zeroed.
C23_Witness ==
    /\ graph.built
    /\ DOMAIN graph.weights = {"lw", "lb"}
    /\ graph.seeds["lw"] = 1
    /\ graph.seeds["lb"] = 0
    /\ nodes[Len(nodes)].parent_operation.kind = "ReduceAcrossBatch"
    /\ nodes[Len(nodes) - 1].parent_operation.kind = "Affine"

(***************************************************************************)
(* Atomicity of the calls on a shared NetworkBuilder (SpecConc).           *)
(***************************************************************************)
\* Thread t is inside new_affine_custom, after the insertion of the weight
\* and before the insertion of the bias.
BetweenWeightAndBias(t) ==
    /\ conc.cont[t] /= NoCall
    /\ conc.pc[t] \in {"init", "init_blocked", "init_holding", "next"}

\* C24: while a thread is between the two insertions of its
\* new_affine_custom the weight it inserted is still the last node of the
\* arena, no other thread having inserted a node after it; and a thread that
\* holds the graph builder never sees a registered weight that has no entry
\* in the initialisation map.
C24_MultiStepConstructionIsAtomic ==
    /\ \A t \in Threads : BetweenWeightAndBias(t) =>
           /\ Len(nodes) >= 1
           /\ \E c \in ConcCalls :
                  Then(c) = conc.cont[t] /\ nodes[Len(nodes)].id = First(c).id
    /\ \A u \in Threads : conc.pc[u] = "holding" =>
           \A n \in weights : nodes[n.idx + 1].id \in DOMAIN init_data

(***************************************************************************)
(* The shape of the arena of a GraphBuilder (Spec).                        *)
(***************************************************************************)
\* C25: when operations are applied to handles the builder returned (or to
\* reshaped copies of them), every operand of a derived node names an
\* existing arena slot with a strictly smaller index than the slot of the
\* node itself, so no chain of operands leads back to its start.
C25_OperandsPrecedeTheirNode ==
    \A i \in 1..Len(nodes) :
        nodes[i].parent_operation /= NoOp =>
            \A o \in OperationNodes(nodes[i].parent_operation) :
                /\ o.idx >= 0
                /\ o.idx + 1 <= Len(nodes)
                /\ o.idx < i - 1
                /\ nodes[o.idx + 1].own.idx = o.idx

\* A node derived from a node that is itself derived from an input.
C25_Witness ==
    /\ Len(nodes) = 3
    /\ nodes[2].parent_operation /= NoOp
    /\ nodes[3].parent_operation /= NoOp
    /\ \E o \in OperationNodes(nodes[3].parent_operation) : o.idx = 1
    /\ \E o \in OperationNodes(nodes[2].parent_operation) : o.idx = 0

(***************************************************************************)
(* A NetworkBuilder after a panic in its GraphBuilder (SpecAffine).        *)
(***************************************************************************)
\* The fields of the GraphBuilder, the initialisation map and the handles
\* given out.
NBState == <<nodes, roots, inputs, weights, ids, init_data, handles>>

\* C26: a call on the NetworkBuilder that panics leaves the graph_builder
\* mutex poisoned, and on a poisoned NetworkBuilder every later call (a node
\* creation, new_affine, forward, to_dense, build) panics, adds no node,
\* registers nothing and builds no graph: what an aborted construction left
\* behind is never extended and never built.
C26_NothingSucceedsAfterAPanic ==
    [][/\ (last'.result = "panic" /\ last'.call /= "nb_build") => poisoned'
       /\ poisoned =>
              /\ last'.result = "panic"
              /\ NBState' = NBState
              /\ poisoned'
              /\ ~graph'.built]_vars

\* new_affine has inserted the weight "lw" and panicked on the bias "lb",
\* and a later build has panicked: "lw" sits in the arena without its bias.
C26_Witness ==
    /\ poisoned
    /\ last.call = "nb_build"
    /\ last.result = "panic"
    /\ ~graph.built
    /\ "lw" \in ids
    /\ Cardinality({i \in 1..Len(nodes) : nodes[i].id = "lb"}) = 1
    /\ \E i \in 1..Len(nodes) : nodes[i].id = "lw"
    /\ \E i \in 1..(Len(nodes) - 1) : nodes[i].id = "lb" /\ nodes[i + 1].id = "lw"

(***************************************************************************)
(* The root of a built Graph (Spec).                                       *)
(***************************************************************************)
\* C27: the root of a Graph that build returned has a producing operation
\* and is no registered input or weight, by handle or by index; and a build
\* of a builder whose single root is a registered input or weight has
\* panicked, before any allocation, and produced no Graph.
C27_BuiltRootIsDerived ==
    /\ graph.built =>
           /\ graph.root.idx + 1 \in 1..Len(nodes)
           /\ nodes[graph.root.idx + 1].parent_operation /= NoOp
           /\ graph.root \notin inputs \cup weights
           /\ \A n \in inputs \cup weights : n.idx /= graph.root.idx
           /\ graph.root.idx \notin {graph.inputs[id].idx : id \in DOMAIN graph.inputs}
           /\ graph.root.idx \notin {graph.weights[id].idx : id \in DOMAIN graph.weights}
    /\ (last.call = "build"
        /\ \E r \in roots : roots = {r} /\ r \in inputs \cup weights) =>
           /\ last.result = "panic"
           /\ last.allocs = 0
           /\ ~graph.built

\* build has panicked on a builder whose only root is a scalar weight, which
\* passes every other check of build.
C27_Witness ==
    /\ last.call = "build"
    /\ last.result = "panic"
    /\ \E r \in roots :
           /\ roots = {r}
           /\ r \in weights
           /\ r.shape = Scalar
           /\ nodes[r.idx + 1].requires_grad
           /\ nodes[r.idx + 1].size = 1

====
